---- MODULE Spec2Model ----
(***************************************************************************)
(* State-machine model of src/src/ui/InsuranceDemoApp.tsx: the PKCE login  *)
(* round trip (startLogin, the redirect-landing effect and                 *)
(* exchangeCodeForTokens), logout, and the email-OTP step-up               *)
(* (startEmailOtp, submitOtp) that precedes the buy-insurance request.     *)
(*                                                                         *)
(* Conventions.  JavaScript null/undefined is modelled by a typed null:    *)
(* 0 for identifiers drawn from 1..N, "" for strings, NoTokens/NoError/... *)
(* for records.  A sessionStorage item is <<>> when absent and <<v>> (the  *)
(* JSON text of v) when present.                                           *)
(***************************************************************************)
EXTENDS Integers, Sequences, FiniteSets, TLC

\* ------------------------------------------------------------- bounds
MaxLogins == 2     \* startLogin calls per behaviour (fresh random states 1..MaxLogins)
MaxSent == 2       \* cap of the per-pair request counter
MaxTok == 2        \* token sets the token endpoint issues per behaviour

\* ------------------------------------------------------------- values
CLIENT_ID == "CLIENT_ID"
CLIENT_ID2 == "CLIENT_ID2"

States == 1..MaxLogins
ForeignState == MaxLogins + 1            \* a state value this tab never generated
Codes == {1, 2}                          \* authorization codes a URL can carry

\* a TokenSet: access_token and the _client_id the code stamps on it (lines 313, 459)
NoTokens == [access_token |-> 0, client_id |-> ""]
NoError == [kind |-> "", status |-> 0, body |-> ""]
NoReq == [code |-> 0, state |-> 0, code_verifier |-> 0, client_id |-> ""]
NoResp == [kind |-> "none", status |-> 0, body |-> ""]
NoUrl == [code |-> 0, state |-> 0]
NoAuthUrl == [state |-> 0, code_challenge |-> 0, client_id |-> ""]
NoRefresh == [client_id |-> "", refresh_token |-> 0, issuer |-> ""]
NoneAtLogout == [pend |-> NoReq, stepUp |-> FALSE, refresh |-> NoRefresh, vehicles |-> FALSE]

\* what the token endpoint may answer
TokenResponses ==
  { [kind |-> "json", status |-> 200, body |-> "tokens"],
    [kind |-> "not_json", status |-> 200, body |-> "<html>"],
    [kind |-> "http_error", status |-> 400, body |-> "invalid_grant"],
    [kind |-> "http_error", status |-> 500, body |-> ""],
    [kind |-> "network_error", status |-> 0, body |-> ""] }

VARIABLES
  store,          \* sessionStorage: key -> <<>> | <<value>>
  storageMode,    \* "ok" | "full" (writes throw) | "disabled" (every access throws)
  loaded,         \* a document of the app is loaded in the tab
  url,            \* code and state parameters of window.location
  mounted,        \* the landing effect has run on this page
  exchangingRef,  \* useRef(false)
  tokens,         \* useState tokens
  error,          \* useState error
  pend,           \* the token request exchangeCodeForTokens is awaiting, or NoReq
  issued,         \* token sets issued by the token endpoint so far
  nextState,      \* how many states startLogin has generated
  sent,           \* history: authorization_code requests sent per (state, code)
  landed,         \* history: state-matching landing invocations on this page (0, 1, 2 = more)
  startable,      \* history: the first of them found the pair fresh and redeemable
  landedPair,     \* history: the (state, code) of those invocations, <<0, 0>> if none
  sentHere,       \* history: token requests the landing effect sent on this page
  threw,          \* history: the last landing invocation threw
  lastResp        \* history: the token endpoint's answer to the last finished exchange

VARIABLES
  vehicles,        \* useState vehicles: loaded flag and the insured vehicle ids
  vehFetch,        \* the vehicles fetch of the [tokens] effect is in flight
  selectedVehicle, \* useState selectedVehicle (a copy of the list entry)
  quote,           \* useState quote
  quoteLoading,    \* useState quoteLoading: vehicle id of the getQuote in flight, 0 if none
  otpVisible, otpValue, otpRequesting, otpError, otpResponse,
  purchaseSuccess,
  otpPend,         \* await point of the running startEmailOtp/submitOtp, "none" if idle
  snap,            \* the render closure submitOtp runs with: tokens, vehicle, quote, ...
  insuredSrv,      \* server side: the vehicles that have a policy
  authnReq,        \* history: body of the last OTP submission request
  lastAuthn,       \* history: the 2xx answer to the OTP submission of this submitOtp
  stepTokenReqs,   \* history: token requests sent by this submitOtp
  stepTokenReq,    \* history: the last of them
  stepNewTokens,   \* history: the TokenSet this submitOtp obtained, NoTokens if none
  buyReq,          \* history: the buy-insurance request of this submitOtp
  rawSeen          \* history: the raw authorize response of the last startEmailOtp

stepVars == <<vehicles, vehFetch, selectedVehicle, quote, quoteLoading, otpVisible, otpValue,
              otpRequesting, otpError, otpResponse, purchaseSuccess, otpPend, snap,
              insuredSrv, authnReq, lastAuthn, stepTokenReqs, stepTokenReq, stepNewTokens,
              buyReq, rawSeen>>

landingVars == <<store, storageMode, loaded, url, mounted, exchangingRef, tokens, error,
                 pend, issued, nextState, sent, landed, startable, landedPair, sentHere, threw, lastResp>>

VARIABLES
  authUrls,        \* history: per state, the authorization URL startLogin navigated to
  refreshClients,  \* provider configuration: the clients whose token sets carry a refresh_token
  issuer,          \* provider side: the client the session's last refreshed TokenSet was issued to
  refreshPend,     \* the refresh_token request the Refresh Token handler is awaiting, or NoRefresh
  refreshLast,     \* history: the last refresh_token request sent
  refreshSent,     \* history: refresh_token requests sent by the last Refresh Token click
  refreshes,       \* refresh_token requests answered with a TokenSet so far
  atLogout         \* history: the requests that were in flight when clearSession last ran

refreshVars == <<refreshClients, issuer, refreshPend, refreshLast, refreshSent, refreshes,
                 atLogout>>

VARIABLES
  kvItem,      \* the sessionStorage item of one key: <<>> absent, <<text>> present
  kvMode,      \* "ok" | "full" | "disabled", as storageMode
  kvSaved,     \* history: <<v>> when the item was last touched by saveSession(key, v)
  kvAccepted,  \* history: that setItem did not throw
  kvFallback,  \* history: the fallback of the last loadSession call
  kvResult,    \* history: <<r>>, what the last loadSession call returned
  kvOp         \* history: the last operation on the key

kvVars == <<kvItem, kvMode, kvSaved, kvAccepted, kvFallback, kvResult, kvOp>>

VARIABLES
  chatReq,       \* POST /chat: the request being handled
  chatPhase,     \* "idle" | "mcp" (awaiting callMcpServer) | "done"
  chatMcpCalls,  \* history: calls of callMcpServer made for the request
  chatMcp,       \* history: what callMcpServer yielded for the request
  chatRes        \* the response sent for the request

chatVars == <<chatReq, chatPhase, chatMcpCalls, chatMcp, chatRes>>

\* the state outside the browser page's components
offPage == <<kvVars, chatVars>>

\* the state of the browser page
pageVars == <<landingVars, stepVars, authUrls, refreshVars>>

vars == <<pageVars, offPage>>

\* ------------------------------------------------------------- SessionStore
Pairs == (States \cup {ForeignState}) \X Codes

Keys ==
  {<<"pkce_state">>, <<"pkce_verifier">>, <<"tokens">>}
    \cup {<<"pkce_verifier", s>> : s \in States \cup {ForeignState}}
    \cup {<<"pkce_client", s>> : s \in States \cup {ForeignState}}
    \cup {<<"pkce_code_used", p[1], p[2]>> : p \in Pairs}

usedKey(state, code) == <<"pkce_code_used", state, code>>

\* JSON.stringify / JSON.parse: the text of v is the one-element tuple <<v>>
Stringify(v) == <<v>>
Parse(text) == text[1]

\* sessionStorage.setItem inside saveSession's try/catch
saveSession(st, mode, key, value) ==
  IF mode = "ok" THEN [st EXCEPT ![key] = Stringify(value)] ELSE st

\* sessionStorage.getItem + JSON.parse inside loadSession's try/catch
loadSession(st, mode, key, fallback) ==
  IF mode = "disabled" THEN fallback
  ELSE IF Len(st[key]) = 0 THEN fallback
  ELSE Parse(st[key])

\* sessionStorage.removeItem inside try/catch
removeItem(st, mode, key) ==
  IF mode = "disabled" THEN st ELSE [st EXCEPT ![key] = <<>>]

\* ------------------------------------------------------------- redirect landing
Bump(f, p, cap) == [f EXCEPT ![p] = IF f[p] < cap THEN f[p] + 1 ELSE f[p]]

\* mutant of landingMatches: the state is not compared with the stored one
landingMatches_anyState(code, state, storedState) == code # 0 /\ state # 0

\* line 411: `if (!code || !state || state !== storedState) return`
landingMatches(code, state, storedState) ==
  code # 0 /\ state # 0 /\ state = storedState

\* mutants of alreadyConsumed: the durable marker is not consulted / nothing is / the
\* in-flight flag is not
alreadyConsumed_refOnly(st, state, code, ref) == ref
alreadyConsumed_never(st, state, code, ref) == FALSE
alreadyConsumed_markerOnly(st, state, code, ref) == Len(st[usedKey(state, code)]) # 0

\* lines 413-415: `alreadyUsed || exchangingRef.current`
alreadyConsumed(st, state, code, ref) ==
  Len(st[usedKey(state, code)]) # 0 \/ ref

\* mutant of markUsed: the marker is not written before the exchange
markUsed_skipped(st, state, code) == st

\* line 418: sessionStorage.setItem(usedKey, "1"), in a store that accepts the write
markUsed(st, state, code) == [st EXCEPT ![usedKey(state, code)] = <<1>>]

\* mutant of codeVerifierFor: a verifier is generated anew instead of the stored one
codeVerifierFor_regenerated(st, mode, state) ==
  IF loadSession(st, mode, <<"pkce_verifier", state>>, 0) # 0 THEN 20 + state ELSE 0

\* lines 432-434: the verifier stored for the state, else the legacy key
codeVerifierFor(st, mode, state) ==
  LET a == IF state # 0 THEN loadSession(st, mode, <<"pkce_verifier", state>>, 0) ELSE 0
  IN  IF a # 0 THEN a ELSE loadSession(st, mode, <<"pkce_verifier">>, 0)

\* lines 435-437
clientIdUsedFor(st, mode, state) ==
  LET a == IF state # 0 THEN loadSession(st, mode, <<"pkce_client", state>>, "") ELSE ""
  IN  IF a # "" THEN a ELSE CLIENT_ID

\* lines 440-445: the body of the authorization_code request
tokenRequestBody(code, state, codeVerifier, clientIdUsed) ==
  [code |-> code, state |-> state, code_verifier |-> codeVerifier, client_id |-> clientIdUsed]

\* the pair is fresh and redeemable: no marker, a writable store, a stored verifier
Redeemable(state, code) ==
  /\ Len(store[usedKey(state, code)]) = 0
  /\ storageMode = "ok"
  /\ codeVerifierFor(store, storageMode, state) # 0

\* The effect of lines 405-428 up to the first await of exchangeCodeForTokens.
redirectLanding ==
  /\ loaded
  /\ mounted' = TRUE
  /\ LET code == url.code
         state == url.state
         storedState == loadSession(store, storageMode, <<"pkce_state">>, 0)
         p == <<state, code>>
     IN
     IF ~landingMatches(code, state, storedState)
     THEN /\ threw' = FALSE
          /\ UNCHANGED <<store, url, exchangingRef, error, pend, sent, landed, startable,
                         landedPair, sentHere>>
     ELSE
       /\ landed' = IF landed < 2 THEN landed + 1 ELSE landed
       /\ startable' = IF landed = 0 THEN Redeemable(state, code) ELSE startable
       /\ landedPair' = p
       /\ IF storageMode = "disabled"
          THEN \* sessionStorage.getItem throws out of the effect
               /\ threw' = TRUE
               /\ UNCHANGED <<store, url, exchangingRef, error, pend, sent, sentHere>>
          ELSE IF alreadyConsumed(store, state, code, exchangingRef)
          THEN /\ threw' = FALSE
               /\ UNCHANGED <<store, url, exchangingRef, error, pend, sent, sentHere>>
          ELSE IF storageMode # "ok"
          THEN \* line 417 ran, sessionStorage.setItem (line 418) throws
               /\ exchangingRef' = TRUE
               /\ threw' = TRUE
               /\ UNCHANGED <<store, url, error, pend, sent, sentHere>>
          ELSE
            LET marked == markUsed(store, state, code)
                codeVerifier == codeVerifierFor(marked, storageMode, state)
                clientIdUsed == clientIdUsedFor(marked, storageMode, state)
            IN
            /\ threw' = FALSE
            /\ store' = marked
            /\ IF codeVerifier = 0
               THEN \* line 438, then lines 422-426 in the same turn
                    /\ error' = [kind |-> "missing_verifier", status |-> 0, body |-> ""]
                    /\ url' = NoUrl
                    /\ exchangingRef' = FALSE
                    /\ UNCHANGED <<pend, sent, sentHere>>
               ELSE \* line 447: the request is sent
                    /\ pend' = tokenRequestBody(code, state, codeVerifier, clientIdUsed)
                    /\ sent' = Bump(sent, p, MaxSent)
                    /\ sentHere' = IF sentHere < MaxSent THEN sentHere + 1 ELSE sentHere
                    /\ exchangingRef' = TRUE
                    /\ UNCHANGED <<url, error>>
  /\ UNCHANGED <<storageMode, loaded, tokens, issued, nextState, lastResp>>

\* mutant of exchangeError: the status is left out of the message
exchangeError_noStatus(resp) ==
  [kind |-> "exchange_failed", status |-> 0, body |-> resp.body]

\* lines 452-455, 458, 464: the message set for a response that yields no tokens
exchangeError(resp) ==
  IF resp.kind = "http_error"
    THEN [kind |-> "exchange_failed", status |-> resp.status,
          body |-> IF resp.body = "" THEN "See Network tab." ELSE resp.body]
  ELSE IF resp.kind = "not_json"
    THEN [kind |-> "not_json", status |-> 0, body |-> ""]
  ELSE [kind |-> "exchange_error", status |-> 0, body |-> "network"]

\* line 462: the verifier and client id of the state are removed
discardFlowState(st, mode, state) ==
  IF state # 0
    THEN removeItem(removeItem(st, mode, <<"pkce_verifier", state>>), mode, <<"pkce_client", state>>)
    ELSE st

\* exchangeCodeForTokens from the response on (lines 452-465), then lines 422-426.
exchangeResponse(resp) ==
  /\ loaded
  /\ pend # NoReq
  /\ lastResp' = resp
  /\ IF resp.kind = "json"
       THEN LET json == [access_token |-> issued + 1, client_id |-> pend.client_id]
            IN /\ issued < MaxTok
               /\ issued' = issued + 1
               /\ tokens' = json
               /\ store' = discardFlowState(
                              saveSession(store, storageMode, <<"tokens">>, json),
                              storageMode, pend.state)
               /\ UNCHANGED error
       ELSE /\ error' = exchangeError(resp)
            /\ UNCHANGED <<tokens, store, issued>>
  /\ url' = NoUrl
  /\ exchangingRef' = FALSE
  /\ pend' = NoReq
  /\ UNCHANGED <<storageMode, loaded, mounted, nextState, sent, landed, startable, landedPair, sentHere, threw>>

\* ------------------------------------------------------------- login, logout, navigation
\* lines 34-38: base64url(SHA-256(verifier)), an injective stand-in
sha256(buffer) == buffer + 100

Urls == [code : {0} \cup Codes, state : 0..ForeignState]

\* line 64 and the other useState/useRef initialisers, run on every page load
pageLoad(u) ==
  /\ url' = u
  /\ loaded' = TRUE
  /\ mounted' = FALSE
  /\ exchangingRef' = FALSE
  /\ tokens' = loadSession(store, storageMode, <<"tokens">>, NoTokens)
  /\ error' = NoError
  /\ pend' = NoReq
  /\ threw' = FALSE
  /\ lastResp' = NoResp
  /\ landed' = 0
  /\ startable' = FALSE
  /\ landedPair' = <<0, 0>>
  /\ sentHere' = 0
  /\ UNCHANGED <<store, storageMode, issued, nextState, sent>>

\* lines 40-46: a fresh random string per call (the n-th call yields n, offset by base)
randomString(base, n) == base + n

\* lines 111-134; the Sign-in button (line 596) passes no clientId.  window.location.assign
\* (line 133) starts a navigation: the page and its handlers stay alive until the next
\* document is loaded (pageLoad).
startLogin(clientId) ==
  /\ loaded
  /\ mounted
  /\ tokens = NoTokens
  /\ nextState < MaxLogins
  /\ LET codeVerifier == randomString(10, nextState + 1)
         state == randomString(0, nextState + 1)
         client == IF clientId # "" THEN clientId ELSE CLIENT_ID
         s1 == saveSession(store, storageMode, <<"pkce_state">>, state)
         s2 == saveSession(s1, storageMode, <<"pkce_verifier", state>>, codeVerifier)
         s3 == saveSession(s2, storageMode, <<"pkce_client", state>>, client)
     IN /\ store' = s3
        /\ nextState' = state
        /\ authUrls' = [authUrls EXCEPT ![state] =
                          [state |-> state, code_challenge |-> sha256(codeVerifier),
                           client_id |-> client]]
  /\ error' = NoError
  /\ UNCHANGED <<storageMode, loaded, url, mounted, exchangingRef, tokens, pend, issued,
                 sent, landed, startable, landedPair, sentHere, threw, lastResp>>

\* mutant of clearSessionStore: the stored TokenSet is left in place
clearSessionStore_memoryOnly(st, mode) == st

\* lines 538-544
clearSessionStore(st, mode) == removeItem(st, mode, <<"tokens">>)

\* lines 546-552: clearSession, then the navigation to the end-session endpoint
rpLogout ==
  /\ loaded
  /\ mounted
  /\ tokens # NoTokens
  /\ tokens' = NoTokens
  /\ store' = clearSessionStore(store, storageMode)
  /\ UNCHANGED <<storageMode, loaded, url, mounted, exchangingRef, error, pend, issued, nextState,
                 sent, landed, startable, landedPair, sentHere, threw, lastResp>>

\* the browser's storage quota runs out: later setItem calls throw
storageFills ==
  /\ storageMode = "ok"
  /\ storageMode' = "full"
  /\ UNCHANGED <<store, loaded, url, mounted, exchangingRef, tokens, error, pend, issued,
                 nextState, sent, landed, startable, landedPair, sentHere, threw, lastResp>>

\* The used-code marker of a pair (lines 413, 418) disappears from sessionStorage while
\* an exchange is in flight: removed by other code of the origin or through the
\* browser's storage inspector.
markerLost(p) ==
  /\ storageMode # "disabled"
  /\ pend # NoReq
  /\ Len(store[usedKey(p[1], p[2])]) # 0
  /\ store' = [store EXCEPT ![usedKey(p[1], p[2])] = <<>>]
  /\ UNCHANGED <<storageMode, loaded, url, mounted, exchangingRef, tokens, error, pend, issued,
                 nextState, sent, landed, startable, landedPair, sentHere, threw, lastResp>>

\* ------------------------------------------------------------- step-up: JSON shapes
landingOnly == <<loaded, url, mounted, exchangingRef, pend, nextState, sent, landed,
                 startable, landedPair, sentHere, threw, lastResp>>

\* lines 202-208: the flow-identifier variants, in probing order
FlowIdFields ==
  <<"flowId", "flowID", "sessionDataKey", "sessionDataKeyConsent", "sessionState">>

\* lines 210-218: the authenticator-identifier variants, in startEmailOtp's order
AuthenticatorFields ==
  <<"nextStep.authenticators[0].authenticatorId", "authenticatorId",
    "authenticators[0].authenticatorId", "authenticators[0].id",
    "authenticate.authenticators[0].id", "stepInfo.options[0].authenticatorId",
    "stepInfo.options[0].id">>

\* lines 247-255: the same variants in submitOtp's order
SubmitAuthenticatorFields ==
  <<"authenticatorId", "nextStep.authenticators[0].authenticatorId",
    "authenticators[0].authenticatorId", "authenticators[0].id",
    "authenticate.authenticators[0].id", "stepInfo.options[0].authenticatorId",
    "stepInfo.options[0].id">>

\* line 220: links[0].href, else the href of the first link matching /authn/i
HrefFields == <<"links[0].href", "links.find(authn).href">>

ProbeFields == FlowIdFields \o AuthenticatorFields \o HrefFields

SeqToSet(q) == {q[i] : i \in 1..Len(q)}

\* the fields a JSON object of the step-up protocol is read at
JsonFields ==
  SeqToSet(ProbeFields) \cup {"authnHref", "flowStatus", "authData.code", "isNull"}

\* a field value: 0 absent (undefined/null), -1 present but falsy (""), > 0 a value
Truthy(v) == v > 0

EmptyJson == [f \in JsonFields |-> IF f = "flowStatus" THEN "" ELSE 0]
NullJson == [EmptyJson EXCEPT !["isNull"] = 1]

\* a || b || ... || null over the fields of obj
RECURSIVE FirstTruthy(_, _)
FirstTruthy(obj, fields) ==
  IF fields = <<>> THEN 0
  ELSE IF Truthy(obj[Head(fields)]) THEN obj[Head(fields)]
  ELSE FirstTruthy(obj, Tail(fields))

\* mutant of beginAuthenticatorId: submitOtp's order used in startEmailOtp
beginAuthenticatorId_submitOrder(res) == FirstTruthy(res, SubmitAuthenticatorFields)

\* lines 202-208
beginFlowId(res) == FirstTruthy(res, FlowIdFields)

\* lines 210-218
beginAuthenticatorId(res) == FirstTruthy(res, AuthenticatorFields)

\* line 220
beginAuthnHref(res) == FirstTruthy(res, HrefFields)

\* mutant of normalized: the raw response is stored as it came
normalized_raw(res) == [res EXCEPT !["isNull"] = 0]

\* line 222: { ...res, flowId, authenticatorId, authnHref }
normalized(res) ==
  [res EXCEPT !["flowId"] = beginFlowId(res),
              !["authenticatorId"] = beginAuthenticatorId(res),
              !["authnHref"] = beginAuthnHref(res),
              !["isNull"] = 0]

\* lines 239-245
submitFlowId(resp) == FirstTruthy(resp, FlowIdFields)

\* lines 247-255
submitAuthenticatorId(resp) == FirstTruthy(resp, SubmitAuthenticatorFields)

DefaultAuthn == 99     \* "https://localhost:9444/oauth2/authn" (line 272)

MaxPresent == 2        \* probed fields a generated raw response carries
MaxRefresh == 1        \* refresh_token requests the token endpoint answers with a TokenSet

\* the value a raw response carries at a field: the field's position among the probes
FieldValue(f) == CHOOSE i \in 1..Len(ProbeFields) : ProbeFields[i] = f

RawWith(fs) == [f \in JsonFields |-> IF f \in fs THEN FieldValue(f) ELSE 0]

\* raw authorize responses the step-up flow is run with
RawSamples ==
  { RawWith({"flowId", "nextStep.authenticators[0].authenticatorId", "links[0].href"}),
    RawWith({"sessionDataKey", "authenticators[0].id"}),
    RawWith({"authenticatorId"}),
    RawWith({"flowId"}),
    NullJson }

\* every raw response with at most MaxPresent probed fields, each carrying its value or ""
RawOf(fs, empty) ==
  [f \in JsonFields |-> IF f \in empty THEN -1 ELSE IF f \in fs THEN FieldValue(f) ELSE 0]

RawInputs ==
  UNION { { RawOf(fs, empty) : empty \in SUBSET fs } :
          fs \in { x \in SUBSET SeqToSet(ProbeFields) : Cardinality(x) <= MaxPresent } }

NormResponses == { [kind |-> "json", json |-> r] : r \in RawInputs }

AuthorizeResponses ==
  { [kind |-> "http_error", json |-> EmptyJson], [kind |-> "network_error", json |-> EmptyJson],
    [kind |-> "not_json", json |-> EmptyJson] }
    \cup { [kind |-> "json", json |-> r] : r \in RawSamples }

\* answers of the OTP submission endpoint
AuthnJson(status, code) ==
  [EmptyJson EXCEPT !["flowStatus"] = status, !["authData.code"] = code]

AuthnResponses ==
  { [kind |-> "http_error", json |-> EmptyJson],
    [kind |-> "network_error", json |-> EmptyJson],
    [kind |-> "json", json |-> NullJson],
    [kind |-> "json", json |-> AuthnJson("SUCCESS_COMPLETED", 7)],
    [kind |-> "json", json |-> AuthnJson("SUCCESS_COMPLETED", 0)],
    [kind |-> "json", json |-> AuthnJson("INCOMPLETE", 0)],
    [kind |-> "json", json |-> AuthnJson("INCOMPLETE", 7)] }

\* ------------------------------------------------------------- step-up: state
Vehicles == {1, 2}
OtpValues == {"", "123456"}

NoVehicles == [loaded |-> FALSE, insured |-> {}]
NoVehicle == [vehicleId |-> 0, isInsured |-> FALSE]
NoQuote == [id |-> 0, vehicleId |-> 0]
NoBuy == [vehicleId |-> 0, quoteId |-> 0, bearer |-> 0]
NoAuthnReq == [flowId |-> 0, authenticatorId |-> 0, OTPCode |-> "", href |-> 0]
NoStepReq == [code |-> 0, client_id |-> "", redirect_uri |-> FALSE, code_verifier |-> 0]
NoAuthn == [kind |-> "none", json |-> EmptyJson]
NoSnap == [tokens |-> NoTokens, vehicle |-> NoVehicle, quote |-> NoQuote,
           vehicles |-> NoVehicles, href |-> 0]

stepHistory == <<authnReq, lastAuthn, stepTokenReqs, stepTokenReq, stepNewTokens, buyReq>>

\* ------------------------------------------------------------- vehicles and quotes
\* lines 88-109: the [tokens] effect's vehicles fetch resolves (fetchVehicles never throws
\* on HTTP errors: it falls back to the mock list)
fetchVehiclesDone ==
  /\ vehFetch
  /\ vehFetch' = FALSE
  /\ vehicles' = [loaded |-> TRUE, insured |-> insuredSrv]
  /\ UNCHANGED <<selectedVehicle, quote, quoteLoading, otpVisible, otpValue, otpRequesting,
                 otpError, otpResponse, purchaseSuccess, otpPend, snap, insuredSrv, rawSeen,
                 stepHistory, store, storageMode, tokens, error, issued, landingOnly>>

\* line 627: a click on a vehicle card toggles the selection
selectVehicle(v) ==
  /\ tokens # NoTokens
  /\ vehicles.loaded
  /\ selectedVehicle' =
       IF selectedVehicle.vehicleId = v THEN NoVehicle
       ELSE [vehicleId |-> v, isInsured |-> v \in vehicles.insured]
  /\ UNCHANGED <<vehicles, vehFetch, quote, quoteLoading, otpVisible, otpValue, otpRequesting,
                 otpError, otpResponse, purchaseSuccess, otpPend, snap, insuredSrv, rawSeen,
                 stepHistory, store, storageMode, tokens, error, issued, landingOnly>>

\* lines 507-529 up to the await; the button of lines 785-790
handleGetQuote ==
  /\ selectedVehicle # NoVehicle
  /\ quote = NoQuote
  /\ ~selectedVehicle.isInsured
  /\ quoteLoading = 0
  /\ IF tokens.access_token = 0
       THEN /\ error' = [kind |-> IF tokens = NoTokens THEN "quote_failed" ELSE "missing_bearer",
                          status |-> 0, body |-> ""]
            /\ UNCHANGED quoteLoading
       ELSE /\ error' = NoError
            /\ quoteLoading' = selectedVehicle.vehicleId
  /\ UNCHANGED <<vehicles, vehFetch, selectedVehicle, quote, otpVisible, otpValue,
                 otpRequesting, otpError, otpResponse, purchaseSuccess, otpPend, snap,
                 insuredSrv, rawSeen, stepHistory, store, storageMode, tokens, issued,
                 landingOnly>>

\* lines 529-535: getQuote resolves with the quote of the requested vehicle, or throws
getQuoteResponse(ok) ==
  /\ quoteLoading # 0
  /\ quoteLoading' = 0
  /\ IF ok
       THEN /\ quote' = [id |-> 20 + quoteLoading, vehicleId |-> quoteLoading]
            /\ UNCHANGED error
       ELSE /\ error' = [kind |-> "quote_failed", status |-> 0, body |-> ""]
            /\ UNCHANGED quote
  /\ UNCHANGED <<vehicles, vehFetch, selectedVehicle, otpVisible, otpValue,
                 otpRequesting, otpError, otpResponse, purchaseSuccess, otpPend, snap,
                 insuredSrv, rawSeen, stepHistory, store, storageMode, tokens, issued,
                 landingOnly>>

\* ------------------------------------------------------------- step-up: begin
\* lines 795, 820-824: the quote panel with the Buy Insurance button
buyPanel == selectedVehicle # NoVehicle /\ quote # NoQuote

\* mutant of buyInsuranceEnabled: the button is not disabled while a request runs
buyInsuranceEnabled_whileRequesting == buyPanel /\ ~otpVisible

\* lines 820-821: the Buy Insurance button is rendered while the OTP panel is not, and
\* is disabled while otpRequesting
buyInsuranceEnabled == buyPanel /\ ~otpVisible /\ ~otpRequesting

\* lines 195-200 and 136-185: startEmailOtp up to the await of the authorize request
startEmailOtp(clientId) ==
  /\ buyInsuranceEnabled
  /\ otpError' = ""
  /\ otpResponse' = NullJson
  /\ otpRequesting' = TRUE
  /\ otpPend' = "authorize"
  /\ authnReq' = NoAuthnReq
  /\ UNCHANGED <<vehicles, vehFetch, selectedVehicle, quote, quoteLoading, otpVisible,
                 otpValue, purchaseSuccess, snap, insuredSrv, rawSeen, lastAuthn,
                 stepTokenReqs, stepTokenReq, stepNewTokens, buyReq,
                 store, storageMode, tokens, error, issued, landingOnly>>

\* mutant of finallyRequesting: the handler ends without its finally block
finallyRequesting_skipped(requesting) == requesting

\* lines 229-231 and 399-401: finally { setOtpRequesting(false) }
finallyRequesting(requesting) == FALSE

\* lines 187-192 and 200-231: the authorize response arrives
authorizeResponse(r) ==
  /\ otpPend = "authorize"
  /\ otpPend' = "none"
  /\ otpRequesting' = finallyRequesting(otpRequesting)
  /\ IF r.kind = "json"
       THEN /\ otpResponse' = normalized(r.json)
            /\ otpVisible' = TRUE
            /\ rawSeen' = r.json
            /\ UNCHANGED otpError
       ELSE /\ otpError' = IF r.kind = "http_error" THEN "emailOtpFlow failed"
                            ELSE IF r.kind = "not_json" THEN "SyntaxError" ELSE "network"
            /\ otpVisible' = FALSE
            /\ rawSeen' = EmptyJson
            /\ UNCHANGED otpResponse
  /\ UNCHANGED <<vehicles, vehFetch, selectedVehicle, quote, quoteLoading,
                 otpValue, purchaseSuccess, snap, insuredSrv, stepHistory,
                 store, storageMode, tokens, error, issued, landingOnly>>

\* lines 831-838: the OTP input
typeOtp(v) ==
  /\ buyPanel /\ otpVisible /\ ~otpRequesting
  /\ otpValue # v
  /\ otpValue' = v
  /\ UNCHANGED <<vehicles, vehFetch, selectedVehicle, quote, quoteLoading, otpVisible,
                 otpRequesting, otpError, otpResponse, purchaseSuccess, otpPend, snap,
                 insuredSrv, rawSeen, stepHistory, store, storageMode, tokens, error,
                 issued, landingOnly>>

\* lines 842-844: Cancel
cancelOtp ==
  /\ buyPanel /\ otpVisible
  /\ otpVisible' = FALSE
  /\ otpValue' = ""
  /\ otpError' = ""
  /\ UNCHANGED <<vehicles, vehFetch, selectedVehicle, quote, quoteLoading,
                 otpRequesting, otpResponse, purchaseSuccess, otpPend, snap,
                 insuredSrv, rawSeen, stepHistory, store, storageMode, tokens, error,
                 issued, landingOnly>>

\* ------------------------------------------------------------- step-up: verify
\* mutant of stepUpCompleted: the embedded code is not required
stepUpCompleted_noCode(json) == json["flowStatus"] = "SUCCESS_COMPLETED"

\* lines 290-291: `json?.flowStatus === "SUCCESS_COMPLETED" && authCode`
stepUpCompleted(json) ==
  json["flowStatus"] = "SUCCESS_COMPLETED" /\ Truthy(json["authData.code"])

\* lines 293-297: the token request of the step-up (no code_verifier is set)
stepUpTokenBody(authCode) ==
  [code |-> authCode, client_id |-> CLIENT_ID2, redirect_uri |-> TRUE, code_verifier |-> 0]

\* lines 325-330, read off the closure's tokens
bearerToken(t) == t.access_token

\* lines 234-280: submitOtp up to the await of the OTP submission
submitOtp ==
  /\ buyPanel /\ otpVisible /\ ~otpRequesting
  /\ LET flowId == submitFlowId(otpResponse)
         authenticatorId == submitAuthenticatorId(otpResponse)
         href == IF Truthy(otpResponse["authnHref"]) THEN otpResponse["authnHref"]
                 ELSE DefaultAuthn
         early == IF otpValue = "" THEN "Enter OTP"
                  ELSE IF otpResponse["isNull"] = 1 THEN "Missing authorize response"
                  ELSE IF flowId = 0 THEN "Unable to locate flowId"
                  ELSE IF authenticatorId = 0 THEN "Unable to locate authenticatorId"
                  ELSE ""
     IN IF early # ""
          THEN /\ otpError' = early
               /\ UNCHANGED <<otpRequesting, otpPend, snap, stepHistory>>
          ELSE /\ otpError' = ""
               /\ otpRequesting' = TRUE
               /\ otpPend' = "authn"
               /\ snap' = [tokens |-> tokens, vehicle |-> selectedVehicle, quote |-> quote,
                           vehicles |-> vehicles, href |-> href]
               /\ authnReq' = [flowId |-> flowId, authenticatorId |-> authenticatorId,
                               OTPCode |-> otpValue, href |-> href]
               /\ lastAuthn' = NoAuthn
               /\ stepTokenReqs' = 0
               /\ stepTokenReq' = NoStepReq
               /\ stepNewTokens' = NoTokens
               /\ buyReq' = NoBuy
  /\ UNCHANGED <<vehicles, vehFetch, selectedVehicle, quote, quoteLoading, otpVisible,
                 otpValue, otpResponse, purchaseSuccess, insuredSrv, rawSeen,
                 store, storageMode, tokens, error, issued, landingOnly>>

\* lines 321-348: what follows the token-exchange block, up to the await of the buy
\* request or the return; `t`, `vehicle` and `q` are the closure's tokens,
\* selectedVehicle and quote
afterExchange(t, vehicle, q) ==
  /\ otpVisible' = FALSE
  /\ otpValue' = ""
  /\ IF t = NoTokens
       THEN \* tokens.access_token throws a TypeError, caught at line 397
            /\ otpError' = "TypeError"
            /\ otpPend' = "none" /\ otpRequesting' = finallyRequesting(otpRequesting)
            /\ UNCHANGED <<error, buyReq>>
     ELSE IF bearerToken(t) = 0
       THEN /\ error' = [kind |-> "missing_bearer", status |-> 0, body |-> ""]
            /\ otpPend' = "none" /\ otpRequesting' = finallyRequesting(otpRequesting)
            /\ UNCHANGED <<otpError, buyReq>>
     ELSE IF vehicle = NoVehicle \/ q = NoQuote
       THEN /\ error' = [kind |-> "missing_vehicle_or_quote", status |-> 0, body |-> ""]
            /\ otpPend' = "none" /\ otpRequesting' = finallyRequesting(otpRequesting)
            /\ UNCHANGED <<otpError, buyReq>>
     ELSE /\ buyReq' = [vehicleId |-> vehicle.vehicleId, quoteId |-> q.id,
                        bearer |-> bearerToken(t)]
          /\ otpPend' = "buy"
          /\ UNCHANGED <<otpError, error, otpRequesting>>

\* mutant of otpResponseAfter: the answer is stored before res.ok is looked at
otpResponseAfter_unchecked(r, current) == r.json

\* lines 282-288: setOtpResponse(json) is reached only past the res.ok check
otpResponseAfter(r, current) == IF r.kind = "json" THEN r.json ELSE current

\* lines 282-303: the answer to the OTP submission arrives
authnResponse(r) ==
  /\ otpPend = "authn"
  /\ otpResponse' = otpResponseAfter(r, otpResponse)
  /\ IF r.kind # "json"
       THEN \* lines 283-286 / a rejected fetch, then 397-401
            /\ otpError' = IF r.kind = "http_error" THEN "OTP verify failed" ELSE "network"
            /\ otpPend' = "none"
            /\ otpRequesting' = finallyRequesting(otpRequesting)
            /\ UNCHANGED <<otpVisible, otpValue, error, lastAuthn,
                           stepTokenReqs, stepTokenReq, buyReq>>
       ELSE /\ lastAuthn' = r
            /\ IF stepUpCompleted(r.json)
                 THEN /\ stepTokenReq' = stepUpTokenBody(r.json["authData.code"])
                      /\ stepTokenReqs' = stepTokenReqs + 1
                      /\ otpPend' = "token"
                      /\ UNCHANGED <<otpVisible, otpValue, otpError, error, otpRequesting,
                                     buyReq>>
                 ELSE /\ afterExchange(snap.tokens, snap.vehicle, snap.quote)
                      /\ UNCHANGED <<stepTokenReqs, stepTokenReq>>
  /\ UNCHANGED <<vehicles, vehFetch, selectedVehicle, quote, quoteLoading, purchaseSuccess,
                 snap, insuredSrv, rawSeen, authnReq, stepNewTokens,
                 store, storageMode, tokens, issued, landingOnly>>

\* lines 305-319: the token endpoint answers the step-up exchange
stepUpTokenResponse(resp) ==
  /\ otpPend = "token"
  /\ IF resp.kind = "json"
       THEN LET tokenJson == [access_token |-> issued + 1, client_id |-> CLIENT_ID2]
            IN /\ issued < MaxTok
               /\ issued' = issued + 1
               /\ tokens' = tokenJson
               /\ store' = saveSession(store, storageMode, <<"tokens">>, tokenJson)
               /\ stepNewTokens' = tokenJson
               /\ vehFetch' = TRUE
               /\ afterExchange(snap.tokens, snap.vehicle, snap.quote)
       ELSE \* line 307 / 311 / a rejected fetch, rethrown at 317, caught at 397
            /\ otpError' = "Post-OTP token exchange error"
            /\ otpPend' = "none"
            /\ otpRequesting' = finallyRequesting(otpRequesting)
            /\ UNCHANGED <<issued, tokens, store, stepNewTokens, vehFetch, otpVisible,
                           otpValue, error, buyReq>>
  /\ UNCHANGED <<vehicles, selectedVehicle, quote, quoteLoading, otpResponse,
                 purchaseSuccess, snap, insuredSrv, rawSeen, authnReq, lastAuthn,
                 stepTokenReqs, stepTokenReq, storageMode, landingOnly>>

\* lines 350-401: the buy-insurance endpoint answers
buyResponse(ok) ==
  /\ otpPend = "buy"
  /\ otpPend' = "none"
  /\ otpRequesting' = finallyRequesting(otpRequesting)
  /\ IF ok
       THEN /\ insuredSrv' = insuredSrv \cup {buyReq.vehicleId}
            /\ vehicles' = [loaded |-> TRUE,
                            insured |-> snap.vehicles.insured \cup {snap.vehicle.vehicleId}]
            /\ selectedVehicle' = [vehicleId |-> snap.vehicle.vehicleId, isInsured |-> TRUE]
            /\ purchaseSuccess' = TRUE
            /\ quote' = NoQuote
            /\ otpVisible' = FALSE
            /\ otpValue' = ""
            /\ UNCHANGED otpError
       ELSE /\ otpError' = "Insurance purchase failed"
            /\ UNCHANGED <<insuredSrv, vehicles, selectedVehicle, purchaseSuccess, quote,
                           otpVisible, otpValue>>
  /\ UNCHANGED <<vehFetch, quoteLoading, otpResponse, snap, rawSeen, stepHistory,
                 store, storageMode, tokens, error, issued, landingOnly>>

\* line 395: setTimeout(() => setPurchaseSuccess(false), 3000)
purchaseTimeout ==
  /\ purchaseSuccess
  /\ otpPend = "none"
  /\ purchaseSuccess' = FALSE
  /\ UNCHANGED <<vehicles, vehFetch, selectedVehicle, quote, quoteLoading, otpVisible,
                 otpValue, otpRequesting, otpError, otpResponse, otpPend, snap, insuredSrv,
                 rawSeen, stepHistory, store, storageMode, tokens, error, issued,
                 landingOnly>>

\* ------------------------------------------------------------- refresh (BankOIDCDemoApp)
\* The sibling component BankOIDCDemoApp (src/src/ui/ChatPanel.tsx) has the same
\* startLogin, landing effect, exchangeCodeForTokens, submitOtp token exchange,
\* clearSession and rpLogout, and adds the Refresh Token button.

\* the client a TokenSet was issued to: the one stamped on it by the exchange that
\* obtained it (lines 313, 459), else the client of the refresh that produced it
issuerOf(t) == IF t.client_id # "" THEN t.client_id ELSE issuer

\* tokens?.refresh_token: the provider adds one for the clients with the refresh grant
hasRefreshToken(t) == t # NoTokens /\ issuerOf(t) \in refreshClients

\* ChatPanel.tsx line 1057: tokens._client_id || C.CLIENT_ID
refreshClientId(t) == IF t.client_id # "" THEN t.client_id ELSE CLIENT_ID

\* ChatPanel.tsx lines 1052-1063: the Refresh Token click up to the await of the fetch
refreshToken ==
  /\ loaded
  /\ tokens # NoTokens
  /\ refreshPend = NoRefresh
  /\ IF ~hasRefreshToken(tokens)
       THEN /\ error' = [kind |-> "no_refresh_token", status |-> 0, body |-> ""]
            /\ refreshSent' = 0
            /\ UNCHANGED <<refreshPend, refreshLast>>
       ELSE LET req == [client_id |-> refreshClientId(tokens),
                        refresh_token |-> tokens.access_token,
                        issuer |-> issuerOf(tokens)]
            IN /\ refreshPend' = req
               /\ refreshLast' = req
               /\ refreshSent' = 1
               /\ UNCHANGED error
  /\ UNCHANGED <<store, storageMode, loaded, url, mounted, exchangingRef, tokens, pend,
                 issued, nextState, sent, landed, startable, landedPair, sentHere, threw,
                 lastResp, stepVars, authUrls, refreshClients, issuer, refreshes, atLogout>>

\* ChatPanel.tsx lines 1064-1070: the token endpoint answers the refresh request.  The
\* provider issues a TokenSet only to the client the refresh token was issued to.
refreshResponse(resp) ==
  /\ loaded
  /\ refreshPend # NoRefresh
  /\ refreshPend' = NoRefresh
  /\ IF resp.kind = "json"
       THEN LET json == [access_token |-> issued + 1, client_id |-> ""]
            IN /\ refreshPend.client_id = refreshPend.issuer
               /\ refreshes < MaxRefresh
               /\ refreshes' = refreshes + 1
               /\ issued' = issued + 1
               /\ issuer' = refreshPend.client_id
               /\ tokens' = json
               /\ store' = saveSession(store, storageMode, <<"tokens">>, json)
               /\ vehFetch' = TRUE
               /\ UNCHANGED error
       ELSE /\ error' = IF resp.kind = "http_error"
                          THEN [kind |-> "refresh_failed", status |-> resp.status, body |-> ""]
                          ELSE [kind |-> "refresh_error", status |-> 0, body |-> ""]
            /\ UNCHANGED <<refreshes, issued, issuer, tokens, store, vehFetch>>
  /\ UNCHANGED <<storageMode, loaded, url, mounted, exchangingRef, pend, nextState, sent,
                 landed, startable, landedPair, sentHere, threw, lastResp, authUrls,
                 refreshClients, refreshLast, refreshSent, atLogout,
                 vehicles, selectedVehicle, quote, quoteLoading, otpVisible, otpValue,
                 otpRequesting, otpError, otpResponse, purchaseSuccess, otpPend, snap,
                 insuredSrv, rawSeen, stepHistory>>

\* ------------------------------------------------------------- the whole session
\* lines 88-109: the [tokens] effect starts its fetches when a TokenSet has been set
tokensEffect == vehFetch' = (IF tokens' # tokens /\ tokens' # NoTokens THEN TRUE ELSE vehFetch)

\* exchangeCodeForTokens' answer together with the [tokens] effect it triggers
exchangeDone(resp) ==
  /\ exchangeResponse(resp)
  /\ tokensEffect
  /\ UNCHANGED <<vehicles, selectedVehicle, quote, quoteLoading, otpVisible, otpValue,
                 otpRequesting, otpError, otpResponse, purchaseSuccess, otpPend, snap,
                 insuredSrv, rawSeen, stepHistory, authUrls, refreshVars>>

\* a document load: every useState/useRef starts from its initialiser (lines 63-85), the
\* handlers of the previous document are gone
load(u) ==
  /\ pageLoad(u)
  /\ vehicles' = NoVehicles
  /\ vehFetch' = (tokens' # NoTokens)
  /\ selectedVehicle' = NoVehicle
  /\ quote' = NoQuote
  /\ quoteLoading' = 0
  /\ otpVisible' = FALSE
  /\ otpValue' = ""
  /\ otpRequesting' = FALSE
  /\ otpError' = ""
  /\ otpResponse' = NullJson
  /\ purchaseSuccess' = FALSE
  /\ otpPend' = "none"
  /\ snap' = NoSnap
  /\ authnReq' = NoAuthnReq
  /\ lastAuthn' = NoAuthn
  /\ stepTokenReqs' = 0
  /\ stepTokenReq' = NoStepReq
  /\ stepNewTokens' = NoTokens
  /\ buyReq' = NoBuy
  /\ rawSeen' = EmptyJson
  /\ refreshPend' = NoRefresh
  /\ refreshSent' = 0
  /\ atLogout' = NoneAtLogout
  /\ UNCHANGED <<insuredSrv, authUrls, refreshClients, issuer, refreshLast, refreshes>>

\* lines 538-552: rpLogout with the whole of clearSession
logout ==
  /\ rpLogout
  /\ vehicles' = NoVehicles
  /\ selectedVehicle' = NoVehicle
  /\ atLogout' = [pend |-> pend, stepUp |-> (otpPend = "token"), refresh |-> refreshPend,
                  vehicles |-> vehFetch]
  /\ UNCHANGED <<vehFetch, quote, quoteLoading, otpVisible, otpValue, otpRequesting,
                 otpError, otpResponse, purchaseSuccess, otpPend, snap, insuredSrv, rawSeen,
                 stepHistory, authUrls, refreshClients, issuer, refreshPend, refreshLast,
                 refreshSent, refreshes>>

\* ------------------------------------------------------------- JSON in sessionStorage
\* JSON values by type; val names the value within its type: booleans 0 false, 1 true;
\* numbers 0 and 1; strings 0 "", 1 "a", 2 "null"; one object, {}.
JsonNull == [type |-> "null", val |-> 0]

JsonValues ==
  {JsonNull}
    \cup {[type |-> "boolean", val |-> b] : b \in {0, 1}}
    \cup {[type |-> "number", val |-> n] : n \in {0, 1}}
    \cup {[type |-> "string", val |-> s] : s \in {0, 1, 2}}
    \cup {[type |-> "object", val |-> 0]}

\* JSON.stringify: the text of a value
JSON_stringify(v) ==
  CASE v.type = "null" -> "null"
    [] v.type = "boolean" -> (IF v.val = 1 THEN "true" ELSE "false")
    [] v.type = "number" -> (IF v.val = 1 THEN "1" ELSE "0")
    [] v.type = "string" -> (CASE v.val = 0 -> "\"\""
                               [] v.val = 1 -> "\"a\""
                               [] OTHER -> "\"null\"")
    [] OTHER -> "{}"

\* JSON.parse: ok is FALSE where it throws a SyntaxError
JSON_parse(text) ==
  IF \E v \in JsonValues : JSON_stringify(v) = text
    THEN [ok |-> TRUE, value |-> CHOOSE v \in JsonValues : JSON_stringify(v) = text]
    ELSE [ok |-> FALSE, value |-> JsonNull]

\* texts a script other than saveSession may have left under the key
RawTexts == {"", "undefined", "{oops", "1", "null"}

\* saveSession on the text of one key: setItem throws in a full or disabled store and
\* the catch drops the exception
saveSessionJson(item, mode, value) ==
  IF mode = "ok" THEN <<JSON_stringify(value)>> ELSE item

\* the variant that falls back on any falsy parsed value
loadSessionJson_falsyFallback(item, mode, fallback) ==
  IF mode = "disabled" \/ item = <<>> \/ item[1] = "" \/ ~JSON_parse(item[1]).ok
    THEN fallback
    ELSE LET v == JSON_parse(item[1]).value
         IN IF v.type \in {"null", "boolean", "number", "string"} /\ v.val = 0
               THEN fallback
               ELSE v

\* loadSession on the text of one key: getItem throws in a disabled store, a missing
\* key is null and an empty text is falsy (the fallback, JSON.parse not called), and
\* a SyntaxError of JSON.parse is caught
loadSessionJson(item, mode, fallback) ==
  IF mode = "disabled" THEN fallback
  ELSE IF item = <<>> THEN fallback
  ELSE IF item[1] = "" THEN fallback
  ELSE IF ~JSON_parse(item[1]).ok THEN fallback
  ELSE JSON_parse(item[1]).value

kvSave(v) ==
  /\ kvItem' = saveSessionJson(kvItem, kvMode, v)
  /\ kvSaved' = <<v>>
  /\ kvAccepted' = (kvMode = "ok")
  /\ kvOp' = "save"
  /\ UNCHANGED <<kvMode, kvFallback, kvResult>>

kvLoad(fallback) ==
  /\ kvResult' = <<loadSessionJson(kvItem, kvMode, fallback)>>
  /\ kvFallback' = fallback
  /\ kvOp' = "load"
  /\ UNCHANGED <<kvItem, kvMode, kvSaved, kvAccepted>>

\* sessionStorage.setItem(key, text) by other code of the origin
kvSetItem(text) ==
  /\ kvMode = "ok"
  /\ kvItem' = <<text>>
  /\ kvSaved' = <<>>
  /\ kvAccepted' = FALSE
  /\ kvOp' = "setItem"
  /\ UNCHANGED <<kvMode, kvFallback, kvResult>>

\* sessionStorage.removeItem(key), as clearSession does
kvRemoveItem ==
  /\ kvMode # "disabled"
  /\ kvItem' = <<>>
  /\ kvSaved' = <<>>
  /\ kvAccepted' = FALSE
  /\ kvOp' = "removeItem"
  /\ UNCHANGED <<kvMode, kvFallback, kvResult>>

\* the quota is reached: from now on setItem throws
kvFills ==
  /\ kvMode = "ok"
  /\ kvMode' = "full"
  /\ UNCHANGED <<kvItem, kvSaved, kvAccepted, kvFallback, kvResult, kvOp>>

\* ------------------------------------------------------------- api-chat/server.js
\* Strings are sequences of characters, so that toLowerCase, includes and startsWith
\* are computed on the text.
UpperCase ==
  <<"A", "B", "C", "D", "E", "F", "G", "H", "I", "J", "K", "L", "M", "N", "O", "P", "Q",
    "R", "S", "T", "U", "V", "W", "X", "Y", "Z">>

LowerCase ==
  <<"a", "b", "c", "d", "e", "f", "g", "h", "i", "j", "k", "l", "m", "n", "o", "p", "q",
    "r", "s", "t", "u", "v", "w", "x", "y", "z">>

toLowerCase(s) ==
  [i \in 1..Len(s) |->
     IF \E k \in 1..Len(UpperCase) : UpperCase[k] = s[i]
       THEN LowerCase[CHOOSE k \in 1..Len(UpperCase) : UpperCase[k] = s[i]]
       ELSE s[i]]

includes(s, k) == \E i \in 0..(Len(s) - Len(k)) : SubSeq(s, i + 1, i + Len(k)) = k

startsWith(s, k) == Len(s) >= Len(k) /\ SubSeq(s, 1, Len(k)) = k

keywords ==
  {<<"v", "e", "h", "i", "c", "l", "e">>, <<"c", "a", "r">>,
   <<"i", "n", "s", "u", "r", "a", "n", "c", "e">>, <<"p", "o", "l", "i", "c", "y">>,
   <<"v", "e", "h", "i", "c", "l", "e", "s">>, <<"c", "a", "r", "s">>,
   <<"c", "o", "v", "e", "r", "a", "g", "e">>, <<"p", "r", "e", "m", "i", "u", "m">>,
   <<"i", "n", "s", "u", "r", "e", "d">>, <<"v", "a", "n">>,
   <<"m", "o", "t", "o", "r", "c", "y", "c", "l", "e">>, <<"b", "i", "k", "e">>,
   <<"r", "e", "g", "i", "s", "t", "r", "a", "t", "i", "o", "n">>,
   <<"s", "u", "m", "m", "a", "r", "y">>, <<"o", "v", "e", "r", "v", "i", "e", "w">>,
   <<"p", "o", "l", "i", "c", "i", "e", "s">>}

makes ==
  {<<"t", "o", "y", "o", "t", "a">>, <<"h", "o", "n", "d", "a">>, <<"b", "m", "w">>,
   <<"m", "e", "r", "c", "e", "d", "e", "s">>, <<"a", "u", "d", "i">>,
   <<"f", "o", "r", "d">>, <<"h", "y", "u", "n", "d", "a", "i">>, <<"k", "i", "a">>,
   <<"v", "o", "l", "k", "s", "w", "a", "g", "e", "n">>, <<"n", "i", "s", "s", "a", "n">>,
   <<"m", "a", "z", "d", "a">>, <<"s", "u", "z", "u", "k", "i">>,
   <<"c", "h", "e", "v", "r", "o", "l", "e", "t">>, <<"r", "e", "n", "a", "u", "l", "t">>,
   <<"t", "a", "t", "a">>, <<"m", "a", "h", "i", "n", "d", "r", "a">>,
   <<"s", "k", "o", "d", "a">>}

isPolicyInfoRequest(prompt) ==
  LET lowerPrompt == toLowerCase(prompt)
  IN \E keyword \in keywords : includes(lowerPrompt, keyword)

\* a field of the request: absent, a string, or a JSON number
Undefined == [type |-> "undefined", text |-> <<>>]
Str(s) == [type |-> "string", text |-> s]

\* !x of the handler
Falsy(x) == x.type = "undefined" \/ (x.type = "string" /\ x.text = <<>>)

Prompts ==
  {Undefined, [type |-> "number", text |-> <<"5">>],
   Str(<<>>),
   Str(<<"H", "e", "l", "l", "o">>),
   Str(<<"h", "e", "l", "p">>),
   Str(<<"s", "c", "a", "r", "y">>),
   Str(<<"M", "y", " ", "C", "a", "r">>),
   Str(<<"s", "u", "m", "m", "a", "r", "y">>),
   Str(<<"c", "a", "r", " ", "v", "a", "l", "u", "e">>),
   Str(<<"K", "i", "a">>),
   Str(<<"k", "i", "a", " ", "b", "i", "k", "e">>),
   Str(<<"b", "i", "k", "e">>),
   Str(<<"p", "o", "l", "i", "c", "y">>),
   Str(<<"v", "a", "n">>),
   Str(<<"a", "c", "t", "i", "o", "n", " ", "c", "a", "r">>)}

AuthHeaders ==
  {Undefined,
   Str(<<"B", "e", "a", "r", "e", "r", " ", "t">>),
   Str(<<"B", "a", "s", "i", "c", " ", "t">>),
   Str(<<"b", "e", "a", "r", "e", "r", " ", "t">>),
   Str(<<"B", "e", "a", "r", "e", "r">>),
   Str(<<"B", "e", "a", "r", "e", "r", " ">>)}

\* What callMcpServer yields. kind "reject": the request failed or the body was not
\* JSON. Otherwise the parsed body: envelope says how far result.content[0] exists,
\* text what content[0].text holds.
Envelopes == {"null", "no_result", "no_content", "empty_content", "content"}
ContentTexts == {"undefined", "not_json", "null", "falsy", "scalar", "object",
                 "vehicles_not_array", "vehicles_empty", "vehicles_items", "vehicles_list"}
NoMcp == [kind |-> "none", envelope |-> "null", text |-> "undefined"]

McpAnswers ==
  {[kind |-> "reject", envelope |-> "null", text |-> "undefined"]}
    \cup {[kind |-> "json", envelope |-> e, text |-> "undefined"] :
            e \in Envelopes \ {"content"}}
    \cup {[kind |-> "json", envelope |-> "content", text |-> t] : t \in ContentTexts}

\* policyInfoData: the parsed content text, named by its shape. "null" and "falsy"
\* (false, 0, "") are the falsy values; "scalar" is a true, a non-zero number or a
\* non-empty string; "object" has no vehicles; "vehicles_not_array" holds a non-empty
\* string or an object there; "vehicles_items" is an array of items without make and
\* estimatedValue; "vehicles_list" is the documented shape.
NullData == "null"
TruthyData(data) == data \notin {"null", "falsy"}

\* the variant that takes the content text as it is
extractPolicyInfo_unparsed(mcpResponse) ==
  IF mcpResponse.kind = "json" /\ mcpResponse.envelope = "content"
    THEN (IF mcpResponse.text \in {"undefined", "not_json"} THEN "scalar"
          ELSE mcpResponse.text)
    ELSE NullData

\* the inner try of the handler: policyInfoData after it. A rejection, a TypeError on
\* a null body and a SyntaxError of JSON.parse all end in the catch, which leaves null.
extractPolicyInfo(mcpResponse) ==
  IF mcpResponse.kind = "reject" THEN NullData
  ELSE IF mcpResponse.envelope = "null" THEN NullData
  ELSE IF mcpResponse.envelope # "content" THEN NullData
  ELSE IF mcpResponse.text \in {"undefined", "not_json"} THEN NullData
  ELSE mcpResponse.text

\* generateResponse: the name of the text it returns, or "throw" for a TypeError
generateResponse(prompt, policyInfoData) ==
  LET lowerPrompt == toLowerCase(prompt)
      has(k) == includes(lowerPrompt, k)
      listed == policyInfoData = "vehicles_list"
      items == policyInfoData = "vehicles_items"
  IN IF TruthyData(policyInfoData)
       THEN IF policyInfoData \in {"scalar", "object", "vehicles_empty"}
              THEN "no_vehicles"
            ELSE IF policyInfoData = "vehicles_not_array" THEN "throw"
            ELSE IF has(<<"s", "u", "m", "m", "a", "r", "y">>) \/ has(<<"o", "v", "e", "r", "v", "i", "e", "w">>)
              THEN "summary"
            ELSE IF has(<<"i", "n", "s", "u", "r", "e", "d">>) \/ has(<<"c", "o", "v", "e", "r", "a", "g", "e">>) \/ has(<<"p", "o", "l", "i", "c", "y">>)
              THEN (IF items THEN "none_insured" ELSE "insured")
            ELSE IF has(<<"v", "a", "l", "u", "e">>) \/ has(<<"w", "o", "r", "t", "h">>) \/ has(<<"p", "r", "i", "c", "e">>)
              THEN (IF items THEN "throw" ELSE "values")
            ELSE IF has(<<"a", "c", "t", "i", "o", "n">>) \/ has(<<"a", "v", "a", "i", "l", "a", "b", "l", "e">>)
              THEN "actions"
            ELSE IF has(<<"c", "a", "r">>) /\ ~has(<<"m", "o", "t", "o", "r", "c", "y", "c", "l", "e">>) /\ ~has(<<"v", "a", "n">>) /\ ~has(<<"t", "r", "u", "c", "k">>)
              THEN (IF items THEN "no_cars" ELSE "cars")
            ELSE IF \E make \in makes : has(make)
              THEN (IF items THEN "throw" ELSE "make")
            ELSE IF has(<<"v", "a", "n">>) \/ has(<<"t", "r", "u", "c", "k">>)
              THEN (IF items THEN "no_vans" ELSE "commercial")
            ELSE (IF items THEN "throw" ELSE "vehicles")
       ELSE IF has(<<"v", "e", "h", "i", "c", "l", "e">>) \/ has(<<"c", "a", "r">>) \/ has(<<"i", "n", "s", "u", "r", "a", "n", "c", "e">>)
              THEN "load_policy_data"
            ELSE IF has(<<"h", "e", "l", "p">>) \/ has(<<"w", "h", "a", "t", " ", "c", "a", "n">>) \/ has(<<"h", "o", "w", " ", "c", "a", "n">>)
              THEN "help"
            ELSE "greeting"

NoChatRes == [status |-> 0, body |-> "none", response |-> "", hadPolicyInfo |-> FALSE,
              policyInfoData |-> NullData]
ErrorRes(status, text) == [status |-> status, body |-> text, response |-> "",
                           hadPolicyInfo |-> FALSE, policyInfoData |-> NullData]

\* step 3 of the handler and the outer catch
chatRespond(prompt, policyInfoData) ==
  LET responseText == generateResponse(prompt, policyInfoData)
  IN IF responseText = "throw"
       THEN ErrorRes(500, "Chat processing failed")
       ELSE [status |-> 200, body |-> "chat", response |-> responseText,
             hadPolicyInfo |-> TruthyData(policyInfoData),
             policyInfoData |-> IF TruthyData(policyInfoData) THEN policyInfoData
                                ELSE NullData]

\* app.post('/chat') up to its answer or to the await of callMcpServer
chatPost(prompt, authHeader) ==
  /\ chatPhase # "mcp"
  /\ chatReq' = [prompt |-> prompt, authorization |-> authHeader]
  /\ chatMcp' = NoMcp
  /\ IF Falsy(prompt)
       THEN /\ chatRes' = ErrorRes(400, "prompt is required")
            /\ chatPhase' = "done"
            /\ chatMcpCalls' = 0
     ELSE IF Falsy(authHeader) \/ ~startsWith(authHeader.text, <<"B", "e", "a", "r", "e", "r", " ">>)
       THEN /\ chatRes' = ErrorRes(401, "Missing or invalid Authorization header")
            /\ chatPhase' = "done"
            /\ chatMcpCalls' = 0
     ELSE IF prompt.type # "string"
       THEN \* prompt.toLowerCase is not a function
            /\ chatRes' = ErrorRes(500, "Chat processing failed")
            /\ chatPhase' = "done"
            /\ chatMcpCalls' = 0
     ELSE IF isPolicyInfoRequest(prompt.text)
       THEN /\ chatRes' = NoChatRes
            /\ chatPhase' = "mcp"
            /\ chatMcpCalls' = 1
     ELSE /\ chatRes' = chatRespond(prompt.text, NullData)
          /\ chatPhase' = "done"
          /\ chatMcpCalls' = 0

\* callMcpServer settles and the handler runs to its answer
mcpSettles(mcpResponse) ==
  /\ chatPhase = "mcp"
  /\ chatMcp' = mcpResponse
  /\ chatRes' = chatRespond(chatReq.prompt.text, extractPolicyInfo(mcpResponse))
  /\ chatPhase' = "done"
  /\ UNCHANGED <<chatReq, chatMcpCalls>>

\* ------------------------------------------------------------- specification
InitKv(modes) ==
  /\ kvItem = <<>>
  /\ kvMode \in modes
  /\ kvSaved = <<>>
  /\ kvAccepted = FALSE
  /\ kvFallback = JsonNull
  /\ kvResult = <<>>
  /\ kvOp = "none"

InitChat ==
  /\ chatReq = [prompt |-> Undefined, authorization |-> Undefined]
  /\ chatPhase = "idle"
  /\ chatMcpCalls = 0
  /\ chatMcp = NoMcp
  /\ chatRes = NoChatRes

InitOffPage == InitKv({"ok"}) /\ InitChat

InitRefreshVars ==
  /\ refreshClients = {}
  /\ issuer = ""
  /\ refreshPend = NoRefresh
  /\ refreshLast = NoRefresh
  /\ refreshSent = 0
  /\ refreshes = 0
  /\ atLogout = NoneAtLogout

InitStepVars ==
  /\ vehicles = NoVehicles
  /\ vehFetch = FALSE
  /\ selectedVehicle = NoVehicle
  /\ quote = NoQuote
  /\ quoteLoading = 0
  /\ otpVisible = FALSE
  /\ otpValue = ""
  /\ otpRequesting = FALSE
  /\ otpError = ""
  /\ otpResponse = NullJson
  /\ purchaseSuccess = FALSE
  /\ otpPend = "none"
  /\ snap = NoSnap
  /\ insuredSrv = {}
  /\ authnReq = NoAuthnReq
  /\ lastAuthn = NoAuthn
  /\ stepTokenReqs = 0
  /\ stepTokenReq = NoStepReq
  /\ stepNewTokens = NoTokens
  /\ buyReq = NoBuy
  /\ rawSeen = EmptyJson

InitPage ==
  /\ store = [k \in Keys |-> <<>>]
  /\ storageMode \in {"ok", "disabled"}
  /\ loaded = TRUE
  /\ url = NoUrl
  /\ mounted = FALSE
  /\ exchangingRef = FALSE
  /\ tokens = NoTokens
  /\ error = NoError
  /\ pend = NoReq
  /\ issued = 0
  /\ nextState = 0
  /\ sent = [p \in Pairs |-> 0]
  /\ landed = 0
  /\ startable = FALSE
  /\ landedPair = <<0, 0>>
  /\ sentHere = 0
  /\ threw = FALSE
  /\ lastResp = NoResp
  /\ InitStepVars
  /\ authUrls = [s \in States |-> NoAuthUrl]
  /\ InitRefreshVars

Init == InitPage /\ InitOffPage

Next ==
  \/ redirectLanding /\ UNCHANGED <<stepVars, authUrls, refreshVars>> /\ UNCHANGED offPage
  \/ \E resp \in TokenResponses :
       exchangeResponse(resp) /\ UNCHANGED <<stepVars, authUrls, refreshVars>> /\ UNCHANGED offPage
  \/ \E u \in Urls : pageLoad(u) /\ UNCHANGED <<stepVars, authUrls, refreshVars>> /\ UNCHANGED offPage
  \/ startLogin("") /\ UNCHANGED <<stepVars, refreshVars>> /\ UNCHANGED offPage
  \/ rpLogout /\ UNCHANGED <<stepVars, authUrls, refreshVars>> /\ UNCHANGED offPage
  \/ storageFills /\ UNCHANGED <<stepVars, authUrls, refreshVars>> /\ UNCHANGED offPage

\* the login round trip: landing effect, exchange, page loads, login, logout
Spec == Init /\ [][Next]_vars

NextLanding ==
  \/ redirectLanding /\ UNCHANGED <<stepVars, authUrls, refreshVars>> /\ UNCHANGED offPage
  \/ \E resp \in TokenResponses :
       exchangeResponse(resp) /\ UNCHANGED <<stepVars, authUrls, refreshVars>> /\ UNCHANGED offPage
  \/ \E u \in Urls : pageLoad(u) /\ UNCHANGED <<stepVars, authUrls, refreshVars>> /\ UNCHANGED offPage
  \/ startLogin("") /\ UNCHANGED <<stepVars, refreshVars>> /\ UNCHANGED offPage
  \/ rpLogout /\ UNCHANGED <<stepVars, authUrls, refreshVars>> /\ UNCHANGED offPage
  \/ storageFills /\ UNCHANGED <<stepVars, authUrls, refreshVars>> /\ UNCHANGED offPage
  \/ \E p \in Pairs : markerLost(p) /\ UNCHANGED <<stepVars, authUrls, refreshVars>> /\ UNCHANGED offPage

\* the login round trip in a tab whose used-code markers may disappear
SpecLanding == Init /\ [][NextLanding]_vars

\* The page after a completed login: state 1 was exchanged with code 1 for the first
\* TokenSet, the [tokens] effect has started its fetches.
LoggedIn ==
  /\ store = [[k \in Keys |-> <<>>] EXCEPT
               ![<<"pkce_state">>] = <<1>>,
               ![usedKey(1, 1)] = <<1>>,
               ![<<"tokens">>] = <<[access_token |-> 1, client_id |-> CLIENT_ID]>>]
  /\ storageMode = "ok"
  /\ loaded = TRUE
  /\ url = NoUrl
  /\ mounted = TRUE
  /\ exchangingRef = FALSE
  /\ tokens = [access_token |-> 1, client_id |-> CLIENT_ID]
  /\ error = NoError
  /\ pend = NoReq
  /\ issued = 1
  /\ nextState = 1
  /\ sent = [p \in Pairs |-> IF p = <<1, 1>> THEN 1 ELSE 0]
  /\ landed = 1
  /\ startable = TRUE
  /\ landedPair = <<1, 1>>
  /\ sentHere = 1
  /\ threw = FALSE
  /\ lastResp = [kind |-> "json", status |-> 200, body |-> "tokens"]
  /\ authUrls = [s \in States |->
                   IF s = 1 THEN [state |-> 1, code_challenge |-> sha256(randomString(10, 1)),
                                  client_id |-> CLIENT_ID]
                   ELSE NoAuthUrl]

InitStepUp ==
  /\ LoggedIn
  /\ vehicles = NoVehicles
  /\ vehFetch = TRUE
  /\ selectedVehicle = NoVehicle
  /\ quote = NoQuote
  /\ quoteLoading = 0
  /\ otpVisible = FALSE
  /\ otpValue = ""
  /\ otpRequesting = FALSE
  /\ otpError = ""
  /\ otpResponse = NullJson
  /\ purchaseSuccess = FALSE
  /\ otpPend = "none"
  /\ snap = NoSnap
  /\ insuredSrv = {}
  /\ authnReq = NoAuthnReq
  /\ lastAuthn = NoAuthn
  /\ stepTokenReqs = 0
  /\ stepTokenReq = NoStepReq
  /\ stepNewTokens = NoTokens
  /\ buyReq = NoBuy
  /\ rawSeen = EmptyJson
  /\ InitRefreshVars
  /\ InitOffPage

NextStepUp ==
  \/ fetchVehiclesDone /\ UNCHANGED <<authUrls, refreshVars>> /\ UNCHANGED offPage
  \/ \E v \in Vehicles : selectVehicle(v) /\ UNCHANGED <<authUrls, refreshVars>> /\ UNCHANGED offPage
  \/ handleGetQuote /\ UNCHANGED <<authUrls, refreshVars>> /\ UNCHANGED offPage
  \/ \E ok \in BOOLEAN : getQuoteResponse(ok) /\ UNCHANGED <<authUrls, refreshVars>> /\ UNCHANGED offPage
  \/ startEmailOtp(CLIENT_ID2) /\ UNCHANGED <<authUrls, refreshVars>> /\ UNCHANGED offPage
  \/ \E r \in AuthorizeResponses : authorizeResponse(r) /\ UNCHANGED <<authUrls, refreshVars>> /\ UNCHANGED offPage
  \/ \E v \in OtpValues : typeOtp(v) /\ UNCHANGED <<authUrls, refreshVars>> /\ UNCHANGED offPage
  \/ cancelOtp /\ UNCHANGED <<authUrls, refreshVars>> /\ UNCHANGED offPage
  \/ submitOtp /\ UNCHANGED <<authUrls, refreshVars>> /\ UNCHANGED offPage
  \/ \E r \in AuthnResponses : authnResponse(r) /\ UNCHANGED <<authUrls, refreshVars>> /\ UNCHANGED offPage
  \/ \E resp \in TokenResponses : stepUpTokenResponse(resp) /\ UNCHANGED <<authUrls, refreshVars>> /\ UNCHANGED offPage
  \/ \E ok \in BOOLEAN : buyResponse(ok) /\ UNCHANGED <<authUrls, refreshVars>> /\ UNCHANGED offPage
  \/ purchaseTimeout /\ UNCHANGED <<authUrls, refreshVars>> /\ UNCHANGED offPage

\* the step-up and purchase on the page of a logged-in session
SpecStepUp == InitStepUp /\ [][NextStepUp]_vars

\* a fresh tab of a provider that issues refresh tokens to some of the two clients
InitSession ==
  /\ store = [k \in Keys |-> <<>>]
  /\ storageMode = "ok"
  /\ loaded = TRUE
  /\ url = NoUrl
  /\ mounted = FALSE
  /\ exchangingRef = FALSE
  /\ tokens = NoTokens
  /\ error = NoError
  /\ pend = NoReq
  /\ issued = 0
  /\ nextState = 0
  /\ sent = [p \in Pairs |-> 0]
  /\ landed = 0
  /\ startable = FALSE
  /\ landedPair = <<0, 0>>
  /\ sentHere = 0
  /\ threw = FALSE
  /\ lastResp = NoResp
  /\ InitStepVars
  /\ authUrls = [s \in States |-> NoAuthUrl]
  /\ refreshClients \in SUBSET {CLIENT_ID, CLIENT_ID2}
  /\ issuer = ""
  /\ refreshPend = NoRefresh
  /\ refreshLast = NoRefresh
  /\ refreshSent = 0
  /\ refreshes = 0
  /\ atLogout = NoneAtLogout
  /\ InitOffPage

\* the answers that let a step-up go through
GoodAuthorize == [kind |-> "json",
                  json |-> RawWith({"flowId", "nextStep.authenticators[0].authenticatorId",
                                    "links[0].href"})]
GoodAuthn == [kind |-> "json", json |-> AuthnJson("SUCCESS_COMPLETED", 7)]
SessionUrls == {NoUrl} \cup [code : {1}, state : States]
SessionTokenResponses ==
  { r \in TokenResponses : r.kind = "json" \/ (r.kind = "http_error" /\ r.status = 400) }

NextSession ==
  \/ redirectLanding /\ UNCHANGED <<stepVars, authUrls, refreshVars>> /\ UNCHANGED offPage
  \/ \E resp \in SessionTokenResponses : exchangeDone(resp) /\ UNCHANGED offPage
  \/ \E u \in SessionUrls : load(u) /\ UNCHANGED offPage
  \/ startLogin("") /\ UNCHANGED <<stepVars, refreshVars>> /\ UNCHANGED offPage
  \/ logout /\ UNCHANGED offPage
  \/ refreshToken /\ UNCHANGED offPage
  \/ \E resp \in SessionTokenResponses : refreshResponse(resp) /\ UNCHANGED offPage
  \/ fetchVehiclesDone /\ UNCHANGED <<authUrls, refreshVars>> /\ UNCHANGED offPage
  \/ selectVehicle(1) /\ UNCHANGED <<authUrls, refreshVars>> /\ UNCHANGED offPage
  \/ handleGetQuote /\ UNCHANGED <<authUrls, refreshVars>> /\ UNCHANGED offPage
  \/ getQuoteResponse(TRUE) /\ UNCHANGED <<authUrls, refreshVars>> /\ UNCHANGED offPage
  \/ startEmailOtp(CLIENT_ID2) /\ UNCHANGED <<authUrls, refreshVars>> /\ UNCHANGED offPage
  \/ authorizeResponse(GoodAuthorize) /\ UNCHANGED <<authUrls, refreshVars>> /\ UNCHANGED offPage
  \/ typeOtp("123456") /\ UNCHANGED <<authUrls, refreshVars>> /\ UNCHANGED offPage
  \/ submitOtp /\ UNCHANGED <<authUrls, refreshVars>> /\ UNCHANGED offPage
  \/ authnResponse(GoodAuthn) /\ UNCHANGED <<authUrls, refreshVars>> /\ UNCHANGED offPage
  \/ \E resp \in SessionTokenResponses :
       stepUpTokenResponse(resp) /\ UNCHANGED <<authUrls, refreshVars>> /\ UNCHANGED offPage
  \/ buyResponse(TRUE) /\ UNCHANGED <<authUrls, refreshVars>> /\ UNCHANGED offPage

\* a whole session: login, step-up, refresh, logout, over page loads
SpecSession == InitSession /\ [][NextSession]_vars

\* Buy Insurance has been clicked for a quoted vehicle: the authorize request is in flight
InitNorm ==
  /\ LoggedIn
  /\ vehicles = [loaded |-> TRUE, insured |-> {}]
  /\ vehFetch = FALSE
  /\ selectedVehicle \in { [vehicleId |-> v, isInsured |-> FALSE] : v \in Vehicles }
  /\ quote = [id |-> 20 + selectedVehicle.vehicleId, vehicleId |-> selectedVehicle.vehicleId]
  /\ quoteLoading = 0
  /\ otpVisible = FALSE
  /\ otpValue = ""
  /\ otpRequesting = TRUE
  /\ otpError = ""
  /\ otpResponse = NullJson
  /\ purchaseSuccess = FALSE
  /\ otpPend = "authorize"
  /\ snap = NoSnap
  /\ insuredSrv = {}
  /\ authnReq = NoAuthnReq
  /\ lastAuthn = NoAuthn
  /\ stepTokenReqs = 0
  /\ stepTokenReq = NoStepReq
  /\ stepNewTokens = NoTokens
  /\ buyReq = NoBuy
  /\ rawSeen = EmptyJson
  /\ InitRefreshVars
  /\ InitOffPage

NextNorm ==
  \/ \E r \in NormResponses : authorizeResponse(r) /\ UNCHANGED <<authUrls, refreshVars>> /\ UNCHANGED offPage
  \/ \E v \in OtpValues : typeOtp(v) /\ UNCHANGED <<authUrls, refreshVars>> /\ UNCHANGED offPage
  \/ submitOtp /\ UNCHANGED <<authUrls, refreshVars>> /\ UNCHANGED offPage

\* the normalisation of startEmailOtp over generated raw responses, and the submission
\* built from its result
SpecNorm == InitNorm /\ [][NextNorm]_vars

InitBusy == InitPage /\ storageMode = "ok" /\ InitOffPage

ExchangeAnswered == \E resp \in TokenResponses : exchangeDone(resp)
\* answers of the authorize endpoint: every failure, no body, and a complete flow
BusyAuthorizeResponses ==
  { r \in AuthorizeResponses :
      \/ r.kind # "json"
      \/ r.json = NullJson
      \/ r.json = RawWith({"flowId", "nextStep.authenticators[0].authenticatorId",
                           "links[0].href"}) }

AuthorizeAnswered == \E r \in BusyAuthorizeResponses : authorizeResponse(r)
AuthnAnswered == \E r \in AuthnResponses : authnResponse(r)
StepUpTokenAnswered == \E resp \in TokenResponses : stepUpTokenResponse(resp)
BuyAnswered == \E ok \in BOOLEAN : buyResponse(ok)

\* no code, the redirect of the first login, and a second code for its state
BusyUrls == {NoUrl, [code |-> 1, state |-> 1], [code |-> 2, state |-> 1]}

NextBusy ==
  \/ redirectLanding /\ UNCHANGED <<stepVars, authUrls, refreshVars>> /\ UNCHANGED offPage
  \/ ExchangeAnswered /\ UNCHANGED offPage
  \/ \E u \in BusyUrls : load(u) /\ UNCHANGED offPage
  \/ startLogin("") /\ UNCHANGED <<stepVars, refreshVars>> /\ UNCHANGED offPage
  \/ pend # NoReq /\ storageFills /\ UNCHANGED <<stepVars, authUrls, refreshVars>> /\ UNCHANGED offPage
  \/ fetchVehiclesDone /\ UNCHANGED <<authUrls, refreshVars>> /\ UNCHANGED offPage
  \/ selectVehicle(1) /\ UNCHANGED <<authUrls, refreshVars>> /\ UNCHANGED offPage
  \/ handleGetQuote /\ UNCHANGED <<authUrls, refreshVars>> /\ UNCHANGED offPage
  \/ getQuoteResponse(TRUE) /\ UNCHANGED <<authUrls, refreshVars>> /\ UNCHANGED offPage
  \/ startEmailOtp(CLIENT_ID2) /\ UNCHANGED <<authUrls, refreshVars>> /\ UNCHANGED offPage
  \/ AuthorizeAnswered /\ UNCHANGED <<authUrls, refreshVars>> /\ UNCHANGED offPage
  \/ \E v \in OtpValues : typeOtp(v) /\ UNCHANGED <<authUrls, refreshVars>> /\ UNCHANGED offPage
  \/ cancelOtp /\ UNCHANGED <<authUrls, refreshVars>> /\ UNCHANGED offPage
  \/ submitOtp /\ UNCHANGED <<authUrls, refreshVars>> /\ UNCHANGED offPage
  \/ AuthnAnswered /\ UNCHANGED <<authUrls, refreshVars>> /\ UNCHANGED offPage
  \/ StepUpTokenAnswered /\ UNCHANGED <<authUrls, refreshVars>> /\ UNCHANGED offPage
  \/ BuyAnswered /\ UNCHANGED <<authUrls, refreshVars>> /\ UNCHANGED offPage

\* every request that is in flight is eventually answered or fails
RequestsSettle ==
  /\ WF_vars(ExchangeAnswered /\ UNCHANGED offPage)
  /\ WF_vars(AuthorizeAnswered /\ UNCHANGED <<authUrls, refreshVars>> /\ UNCHANGED offPage)
  /\ WF_vars(AuthnAnswered /\ UNCHANGED <<authUrls, refreshVars>> /\ UNCHANGED offPage)
  /\ WF_vars(StepUpTokenAnswered /\ UNCHANGED <<authUrls, refreshVars>> /\ UNCHANGED offPage)
  /\ WF_vars(BuyAnswered /\ UNCHANGED <<authUrls, refreshVars>> /\ UNCHANGED offPage)

\* login and step-up with every answer the endpoints can give, requests settling
SpecBusy == InitBusy /\ [][NextBusy]_vars /\ RequestsSettle

StorageModes == {"ok", "full", "disabled"}

InitStore == InitPage /\ storageMode = "ok" /\ InitKv(StorageModes) /\ InitChat

NextStore ==
  \/ \E v \in JsonValues : kvSave(v) /\ UNCHANGED <<pageVars, chatVars>>
  \/ \E fallback \in JsonValues : kvLoad(fallback) /\ UNCHANGED <<pageVars, chatVars>>
  \/ \E text \in RawTexts : kvSetItem(text) /\ UNCHANGED <<pageVars, chatVars>>
  \/ kvRemoveItem /\ UNCHANGED <<pageVars, chatVars>>
  \/ kvFills /\ UNCHANGED <<pageVars, chatVars>>

\* saveSession and loadSession on one key, over JSON values and foreign texts
SpecStore == InitStore /\ [][NextStore]_vars

InitChatServer == InitPage /\ storageMode = "ok" /\ InitOffPage

NextChat ==
  \/ \E prompt \in Prompts, authHeader \in AuthHeaders :
       chatPost(prompt, authHeader) /\ UNCHANGED <<pageVars, kvVars>>
  \/ \E mcpResponse \in McpAnswers : mcpSettles(mcpResponse) /\ UNCHANGED <<pageVars, kvVars>>

\* the chat server handling one request after another
SpecChat == InitChatServer /\ [][NextChat]_vars

\* ============================================================= claims
storedState == loadSession(store, storageMode, <<"pkce_state">>, 0)
hasMarker(p) == p \in Pairs /\ Len(store[usedKey(p[1], p[2])]) # 0
urlPair == <<url.state, url.code>>

\* C1: for every (state, code) pair, over any sequence of landing invocations, page
\* loads, logins and logouts, at most one authorization_code request is ever sent.
C1_AtMostOneExchangePerPair == \A p \in Pairs : sent[p] <= 1

\* C1 witness: the pair of the URL was exchanged successfully before, the page was
\* loaded again with the same URL and the effect ran twice more on it.
C1_Witness ==
  /\ loaded /\ landed = 2 /\ urlPair \in Pairs /\ landedPair = urlPair
  /\ sent[urlPair] = 1 /\ pend = NoReq /\ tokens # NoTokens

Mismatch ==
  \/ url.code = 0
  \/ url.state = 0
  \/ storageMode = "disabled"
  \/ Len(store[<<"pkce_state">>]) = 0
  \/ store[<<"pkce_state">>][1] # url.state

\* C3: a landing invocation whose code or state is absent, or whose state differs from
\* the stored pending state, sends no token request, starts no exchange and does not
\* throw.
C3_MismatchIsNoOp ==
  [][(redirectLanding /\ Mismatch) =>
       (sent' = sent /\ pend' = pend /\ exchangingRef' = exchangingRef /\ ~threw')]_vars

\* C3 witness: the effect has run on a page whose URL carries a code and a state that
\* is not the stored pending state, and nothing was started.
C3_Witness ==
  /\ loaded /\ mounted /\ url.code # 0 /\ url.state # 0
  /\ storedState # 0 /\ storedState # url.state
  /\ landed = 0 /\ pend = NoReq

\* the step in which an exchange finishes with the token endpoint's answer
ExchangeFinishes == pend # NoReq /\ pend' = NoReq /\ mounted'

Carries(err, resp) ==
  err.kind # "" /\ err.status = resp.status /\ (resp.body # "" => err.body = resp.body)

TokenSetUntouched ==
  tokens' = tokens /\ store'[<<"tokens">>] = store[<<"tokens">>]

C5_FlowStateRemoved ==
  (loaded /\ lastResp.kind # "none" /\ storageMode = "ok") =>
    /\ storedState # landedPair[1]
    /\ Len(store[<<"pkce_verifier", landedPair[1]>>]) = 0
    /\ Len(store[<<"pkce_client", landedPair[1]>>]) = 0

\* ------------------------------------------------------------- claims: step-up
CompletedWithCode(json) == json["flowStatus"] = "SUCCESS_COMPLETED" /\ json["authData.code"] > 0
CompletedWithoutCode(json) == json["flowStatus"] = "SUCCESS_COMPLETED" /\ json["authData.code"] <= 0

\* C6: once the OTP submission has answered 2xx with flowStatus SUCCESS_COMPLETED and an
\* embedded authData.code, that submitOtp has sent exactly one token request, for that
\* code and with client_id CLIENT_ID2; when the answer has the same flowStatus but no
\* code, it has sent none.
C6_OneStepUpExchangeIffCode ==
  lastAuthn.kind = "json" =>
    /\ CompletedWithCode(lastAuthn.json) =>
          /\ stepTokenReqs = 1
          /\ stepTokenReq.client_id = CLIENT_ID2
          /\ stepTokenReq.code = lastAuthn.json["authData.code"]
    /\ CompletedWithoutCode(lastAuthn.json) => stepTokenReqs = 0

C6_Witness ==
  /\ lastAuthn.kind = "json"
  /\ CompletedWithCode(lastAuthn.json)
  /\ stepTokenReqs = 1
  /\ stepTokenReq.client_id = CLIENT_ID2
  /\ otpPend = "token"

\* C7: when a step-up has completed with an embedded code and a successful token
\* exchange, the buy-insurance request that step-up issues carries the access token of
\* the new TokenSet.
C7_BuyCarriesNewToken ==
  (buyReq # NoBuy /\ stepNewTokens # NoTokens) => buyReq.bearer = stepNewTokens.access_token

\* C8: the buy-insurance request is issued only by a submitOtp whose OTP verification
\* ended with a new TokenSet.
C8_BuyOnlyAfterNewTokenSet == buyReq # NoBuy => stepNewTokens # NoTokens

NoFlowIdentifier(raw) == \A i \in 1..Len(FlowIdFields) : raw[FlowIdFields[i]] <= 0
NoAuthenticatorIdentifier(raw) ==
  \A i \in 1..Len(AuthenticatorFields) : raw[AuthenticatorFields[i]] <= 0

\* C9: when the authorize response carries no flow identifier or no authenticator
\* identifier, the step in which startEmailOtp receives it leaves the challenge hidden
\* and an error reported.
C9_BeginFailsWithoutIds ==
  [][(/\ otpPend = "authorize"
      /\ otpPend' = "none"
      /\ (NoFlowIdentifier(rawSeen') \/ NoAuthenticatorIdentifier(rawSeen')))
     => (~otpVisible' /\ otpError' # "")]_vars

C10_FlowOrder ==
  <<"flowId", "flowID", "sessionDataKey", "sessionDataKeyConsent", "sessionState">>
C10_AuthenticatorOrder ==
  <<"nextStep.authenticators[0].authenticatorId", "authenticatorId",
    "authenticators[0].authenticatorId", "authenticators[0].id",
    "authenticate.authenticators[0].id", "stepInfo.options[0].authenticatorId",
    "stepInfo.options[0].id">>

\* v is the value of the first field of `order` that raw carries non-empty, or 0 (null)
\* when it carries none
IsFirstPresent(raw, order, v) ==
  IF \E i \in 1..Len(order) : raw[order[i]] > 0
    THEN \E i \in 1..Len(order) :
           /\ raw[order[i]] > 0
           /\ \A j \in 1..(i - 1) : raw[order[j]] <= 0
           /\ v = raw[order[i]]
    ELSE v = 0

OnlySessionDataKeyAndId == RawWith({"sessionDataKey", "authenticators[0].id"})

\* C10: the context startEmailOtp stores for a raw response holds, as flowId and as
\* authenticatorId, the first non-empty field in the fixed priority orders; a response
\* with only sessionDataKey and authenticators[0].id yields that sessionDataKey and that
\* id; and the submission built from the context sends these two values.
C10_ProbesInPriorityOrder ==
  otpVisible =>
    /\ IsFirstPresent(rawSeen, C10_FlowOrder, otpResponse["flowId"])
    /\ IsFirstPresent(rawSeen, C10_AuthenticatorOrder, otpResponse["authenticatorId"])
    /\ rawSeen = OnlySessionDataKeyAndId =>
          /\ otpResponse["flowId"] = rawSeen["sessionDataKey"]
          /\ otpResponse["authenticatorId"] = rawSeen["authenticators[0].id"]
    /\ otpPend = "authn" =>
          /\ authnReq.flowId = otpResponse["flowId"]
          /\ authnReq.authenticatorId = otpResponse["authenticatorId"]

C10_Witness ==
  /\ otpVisible
  /\ rawSeen = OnlySessionDataKeyAndId
  /\ otpResponse["flowId"] = FieldValue("sessionDataKey")
  /\ otpResponse["authenticatorId"] = FieldValue("authenticators[0].id")
  /\ otpPend = "authn"
  /\ authnReq.flowId = FieldValue("sessionDataKey")

\* ------------------------------------------------------------- claims: requests, storage
\* C12: every authorization_code request carries the code, the PKCE code_verifier, the
\* client id and the redirect URI; stated here for the request of the step-up path.
C12_CodeRequestCarriesVerifier ==
  stepTokenReq # NoStepReq =>
    /\ stepTokenReq.code # 0
    /\ stepTokenReq.code_verifier # 0
    /\ stepTokenReq.client_id # ""
    /\ stepTokenReq.redirect_uri

\* C16: no session-storage failure propagates out of the landing handler, and the
\* in-flight flag is never left set with no exchange running.
C16_StorageFailuresSwallowed == ~threw /\ (exchangingRef => pend # NoReq)

\* an error message is on screen: `error` in the session card (line 865), `otpError`
\* inside the OTP panel (lines 820-846)
ErrorDisplayed(err, oErr, oVisible, vehicle, q) ==
  err.kind # "" \/ (oErr # "" /\ oVisible /\ vehicle # NoVehicle /\ q # NoQuote)

\* C17: the step in which startEmailOtp receives a non-2xx answer to the authorize
\* request leaves an error message on screen.
C17_FailedInitiationVisible ==
  [][(otpPend = "authorize" /\ otpPend' = "none" /\ otpError' = "emailOtpFlow failed")
     => ErrorDisplayed(error', otpError', otpVisible', selectedVehicle', quote')]_vars

\* C20: whenever an exchange request for (state, code) is in flight or has been sent,
\* the used-code marker of the pair is in the session store.
C20_MarkerBeforeRequest ==
  \A p \in Pairs :
    (sent[p] > 0 \/ (pend # NoReq /\ <<pend.state, pend.code>> = p))
      => Len(store[usedKey(p[1], p[2])]) # 0

C20_Witness ==
  /\ pend # NoReq
  /\ sent[<<pend.state, pend.code>>] = 1
  /\ Len(store[usedKey(pend.state, pend.code)]) # 0
  /\ exchangingRef

\* ------------------------------------------------------------- claims: PKCE binding
FlowStatePersisted(st, u) ==
  /\ Len(st[<<"pkce_verifier", u.state>>]) # 0
  /\ sha256(st[<<"pkce_verifier", u.state>>][1]) = u.code_challenge
  /\ Len(st[<<"pkce_client", u.state>>]) # 0
  /\ st[<<"pkce_client", u.state>>][1] = u.client_id

RedirectsToAuthorize == authUrls' # authUrls
SendsExchange == pend = NoReq /\ pend' # NoReq

ExchangeBound(req) ==
  /\ req.state \in States
  /\ authUrls[req.state] # NoAuthUrl
  /\ sha256(req.code_verifier) = authUrls[req.state].code_challenge
  /\ req.client_id = authUrls[req.state].client_id

\* C13 as stated: whenever startLogin navigates to the authorization endpoint with state
\* s, challenge c and client id k, the store holds for s a verifier v with
\* c = base64url(SHA256(v)) and the client id k; and an exchange sent for state s carries
\* that v and k.
C13_Original ==
  [][/\ RedirectsToAuthorize => FlowStatePersisted(store', authUrls'[nextState'])
     /\ SendsExchange => ExchangeBound(pend')]_vars

\* C13 amended: the FlowState is persisted before the redirect when the store accepts
\* writes; when it does not, startLogin redirects all the same and nothing is stored
\* for s.  In every case an exchange sent for state s carries the verifier whose
\* challenge went out with s, and the client id that went out with s.
C13_PkceBinding ==
  [][/\ (RedirectsToAuthorize /\ storageMode = "ok")
          => FlowStatePersisted(store', authUrls'[nextState'])
     /\ (RedirectsToAuthorize /\ storageMode # "ok")
          => /\ Len(store'[<<"pkce_verifier", nextState'>>]) = 0
             /\ loadSession(store', storageMode, <<"pkce_state">>, 0) # nextState'
     /\ SendsExchange => ExchangeBound(pend')]_vars

C13_Witness ==
  /\ pend # NoReq
  /\ pend.state \in States
  /\ authUrls[pend.state] # NoAuthUrl
  /\ sha256(pend.code_verifier) = authUrls[pend.state].code_challenge
  /\ pend.client_id = CLIENT_ID

\* ------------------------------------------------------------- claims: session
\* C11: every refresh request carries the client id of the client that issued the
\* TokenSet it extends.
C11_RefreshUsesIssuer ==
  refreshLast # NoRefresh => refreshLast.client_id = refreshLast.issuer

RefreshRejected ==
  refreshPend # NoRefresh /\ refreshPend' = NoRefresh /\ error'.kind = "refresh_failed"

\* C15: a refresh the token endpoint rejects leaves the session unauthenticated (no
\* TokenSet in memory), and a Refresh Token click sends at most one request.
C15_RejectedRefreshForcesLogin ==
  [][(RefreshRejected => tokens' = NoTokens) /\ refreshSent' <= 1]_vars

TokenSetExists(t, st) == t # NoTokens \/ Len(st[<<"tokens">>]) # 0
ExchangeSucceeds == pend # NoReq /\ pend' = NoReq /\ lastResp'.kind = "json"
StepUpCompletes == otpPend = "token" /\ stepNewTokens = NoTokens /\ stepNewTokens' # NoTokens

\* C14: the logout step leaves no TokenSet in memory or in the session store, and a
\* TokenSet comes to exist again only in the step of a successful code exchange or of a
\* step-up completion.
C14_NoTokenSetAfterLogout ==
  [][/\ logout => ~TokenSetExists(tokens', store')
     /\ (~TokenSetExists(tokens, store) /\ TokenSetExists(tokens', store'))
          => (ExchangeSucceeds \/ StepUpCompletes)]_vars

\* C18 as stated: a load that follows a save of the key returns the saved value,
\* whatever the value.
C18_Original == (kvOp = "load" /\ kvSaved # <<>>) => kvResult = kvSaved

\* C18 amended: a load that follows a save which sessionStorage accepted returns a
\* value equal to the saved one, for every JSON value (null, false, 0 and "" too);
\* a load of a missing key, of an empty or unparsable text, or from a store that
\* cannot be read returns the fallback.
C18_RoundTrip ==
  kvOp = "load" =>
    /\ (kvSaved # <<>> /\ kvAccepted) => kvResult = kvSaved
    /\ (kvMode = "disabled" \/ kvItem = <<>> \/ kvItem \in {<<"">>, <<"undefined">>, <<"{oops">>})
         => kvResult = <<kvFallback>>

\* C18 witness: a falsy value was saved into a working store and loaded back with a
\* different fallback.
C18_Witness ==
  /\ kvOp = "load" /\ kvAccepted
  /\ kvSaved = <<[type |-> "number", val |-> 0]>>
  /\ kvFallback = [type |-> "object", val |-> 0]
  /\ kvResult = kvSaved

\* the request carried a usable prompt and a Bearer header
PromptMissing == Falsy(chatReq.prompt)
NotBearer ==
  \/ chatReq.authorization.type = "undefined"
  \/ chatReq.authorization.text \in {<<>>, <<"B", "a", "s", "i", "c", " ", "t">>,
                                      <<"b", "e", "a", "r", "e", "r", " ", "t">>,
                                      <<"B", "e", "a", "r", "e", "r">>}
McpFailed == chatMcp.kind = "reject"
McpDocumented ==
  /\ chatMcp.kind = "json" /\ chatMcp.envelope = "content"
  /\ chatMcp.text \in {"vehicles_empty", "vehicles_list"}
AnswersWithoutPolicyInfo ==
  /\ chatRes.status = 200 /\ chatRes.response # ""
  /\ ~chatRes.hadPolicyInfo /\ chatRes.policyInfoData = NullData
HasKeyword ==
  /\ chatReq.prompt.type = "string"
  /\ chatReq.prompt.text \notin {<<"H", "e", "l", "l", "o">>, <<"h", "e", "l", "p">>,
                                  <<"K", "i", "a">>}

\* C19 as stated: a finished request was answered 400 when the prompt is missing, 401
\* when (the prompt given) the header is missing or not Bearer, and 200 with a
\* response, hadPolicyInfo false and policyInfoData null when the MCP call failed or
\* returned anything but the documented structure; without a keyword no MCP call.
C19_Original ==
  chatPhase = "done" =>
    /\ PromptMissing => chatRes.status = 400
    /\ (~PromptMissing /\ NotBearer) => chatRes.status = 401
    /\ (chatMcpCalls = 1 /\ ~McpDocumented) => AnswersWithoutPolicyInfo
    /\ ~HasKeyword => chatMcpCalls = 0

\* C19 amended: 400 when the prompt is missing or empty; 401 when the prompt is given
\* and the header is missing or does not start with "Bearer "; 200 with a response,
\* hadPolicyInfo false and policyInfoData null when the MCP call fails, its answer has
\* no result.content[0], or the text there is not JSON or is a falsy JSON value; any
\* other JSON text is taken as the policy data, answered 200 with hadPolicyInfo true
\* or, where its vehicles are not an array, 500; without a keyword no MCP call.
C19_ChatErrorHandling ==
  chatPhase = "done" =>
    /\ PromptMissing => chatRes.status = 400
    /\ (~PromptMissing /\ NotBearer) => chatRes.status = 401
    /\ (chatMcpCalls = 1
          /\ (McpFailed \/ chatMcp.envelope # "content"
                \/ chatMcp.text \in {"undefined", "not_json", "null", "falsy"}))
         => AnswersWithoutPolicyInfo
    /\ (chatMcpCalls = 1 /\ chatMcp.kind = "json" /\ chatMcp.envelope = "content"
          /\ chatMcp.text \in {"scalar", "object"})
         => (chatRes.status = 200 /\ chatRes.hadPolicyInfo
              /\ chatRes.policyInfoData = chatMcp.text)
    /\ (chatMcpCalls = 1 /\ chatMcp.kind = "json" /\ chatMcp.envelope = "content"
          /\ chatMcp.text = "vehicles_not_array")
         => chatRes.status = 500
    /\ ~HasKeyword => chatMcpCalls = 0

\* C19 witness: a policy prompt with a Bearer header was answered without policy
\* data after the MCP server returned a text that is not JSON.
C19_Witness ==
  /\ chatPhase = "done" /\ chatMcpCalls = 1
  /\ chatMcp.kind = "json" /\ chatMcp.envelope = "content" /\ chatMcp.text = "not_json"
  /\ AnswersWithoutPolicyInfo /\ chatRes.response = "load_policy_data"

\* C21: a landing invocation that runs while an exchange of this page is in flight
\* starts no exchange and sends no request, whether or not the used-code marker of
\* the pair can be seen in the store.
C21_FlagAloneBlocksSecondExchange ==
  [][(redirectLanding /\ pend # NoReq) => (pend' = pend /\ sent' = sent)]_vars

\* C21 witness: the effect has run twice for the pair of the exchange in flight, the
\* marker of the pair is not in the store, and one request was sent.
C21_Witness ==
  /\ pend # NoReq /\ exchangingRef
  /\ landed = 2 /\ landedPair = <<pend.state, pend.code>>
  /\ Len(store[usedKey(pend.state, pend.code)]) = 0
  /\ sentHere = 1 /\ sent[landedPair] = 1

\* the URL carries a code and a state, and the state is not the stored pending state
StateMismatch ==
  /\ url.code # 0 /\ url.state # 0
  /\ loadSession(store, storageMode, <<"pkce_state">>, 0) # url.state

\* C22: a landing invocation whose state differs from the stored pending state leaves
\* the error message, the TokenSet in memory, the whole session store (TokenSet,
\* FlowState, used-code markers), the in-flight flag and the URL as they were, and
\* does not throw.
C22_MismatchChangesNothing ==
  [][(redirectLanding /\ StateMismatch) =>
       /\ error' = error /\ tokens' = tokens /\ store' = store
       /\ exchangingRef' = exchangingRef /\ url' = url /\ pend' = pend /\ ~threw']_vars

\* C22 witness: a signed-in page, whose store still holds the pending state of its
\* login, was loaded with a code and a state this tab never generated, and the effect
\* has run on it.
C22_Witness ==
  /\ mounted /\ url.code # 0 /\ url.state = ForeignState
  /\ storedState \in States /\ tokens # NoTokens
  /\ Len(store[<<"tokens">>]) # 0 /\ hasMarker(<<storedState, 1>>)
  /\ error = NoError /\ ~exchangingRef /\ landed = 0

\* steps of the step-up flow
BeginStarted == otpPend # "authorize" /\ otpPend' = "authorize"
SubmissionSent == otpPend # "authn" /\ otpPend' = "authn"
ChallengeAppears == ~otpVisible /\ otpVisible'

\* C23: an OTP submission request is sent only while the challenge is shown and no
\* request of the flow is running; the challenge appears only in the step in which a
\* begin request is answered with a challenge; and a begin request is started only
\* while neither a begin nor a verify is in flight.
C23_StepUpOrder ==
  [][/\ SubmissionSent => (otpVisible /\ otpPend = "none" /\ ~otpRequesting)
     /\ ChallengeAppears => (otpPend = "authorize" /\ rawSeen' # EmptyJson)
     /\ BeginStarted => (otpPend = "none" /\ ~otpRequesting /\ ~otpVisible)]_vars

\* C23 witness: the user cancelled the OTP panel while the submission was in flight;
\* the Buy Insurance button is back on screen, disabled.
C23_Witness ==
  /\ buyPanel /\ otpPend = "authn" /\ otpRequesting /\ ~otpVisible
  /\ authnReq # NoAuthnReq /\ rawSeen # EmptyJson

\* the step in which an OTP submission is answered with a non-2xx status
SubmissionRejected ==
  otpPend = "authn" /\ otpPend' = "none" /\ otpError' = "OTP verify failed"

\* what a submission made now would carry
WouldSubmit(resp) ==
  [flowId |-> submitFlowId(resp), authenticatorId |-> submitAuthenticatorId(resp),
   href |-> IF Truthy(resp["authnHref"]) THEN resp["authnHref"] ELSE DefaultAuthn]

HoldsContext(resp) ==
  submitFlowId(resp) # 0 \/ submitAuthenticatorId(resp) # 0 \/ Truthy(resp["authnHref"])

\* a submitOtp that sent its submission has finished, and no begin was started since
SubmitFinished == otpPend = "none" /\ authnReq # NoAuthnReq

\* the step in which a submission ends without a 2xx answer
SubmissionFailed ==
  otpPend = "authn" /\ otpPend' = "none" /\ otpError' \in {"OTP verify failed", "network"}

\* C25 as stated: once a submitOtp that sent its submission has finished, the caller
\* holds no flowId, authenticatorId or authnHref of the attempt.
C25_Original == SubmitFinished => ~HoldsContext(otpResponse)

\* C25 amended: the challenge context lives in otpResponse; a submission that ends
\* without a 2xx answer leaves it as it was, identifiers included; a 2xx answer
\* replaces it with the answer's JSON; Cancel leaves it; the start of the next
\* startEmailOtp clears it.
C25_ContextLifetime ==
  [][/\ SubmissionFailed => (otpResponse' = otpResponse /\ HoldsContext(otpResponse'))
     /\ (otpPend = "authn" /\ lastAuthn' # NoAuthn) => otpResponse' = lastAuthn'.json
     /\ (otpVisible /\ ~otpVisible' /\ otpPend' = otpPend) => otpResponse' = otpResponse
     /\ BeginStarted => otpResponse' = NullJson]_vars

\* C25 witness: the submission failed on the network and the context it was built
\* from is still held.
C25_Witness ==
  /\ SubmitFinished /\ otpError = "network"
  /\ HoldsContext(otpResponse)
  /\ submitFlowId(otpResponse) = authnReq.flowId
  /\ submitAuthenticatorId(otpResponse) = authnReq.authenticatorId

\* C26: while the challenge of a raw response is shown, the flowId and authenticatorId
\* submitOtp derives from the stored context are the ones startEmailOtp computed from
\* the raw response; a submission that was sent carries them, both found; and
\* submitOtp reports a missing identifier only where startEmailOtp found none.
ContextAgrees ==
  (otpVisible /\ otpPend # "authorize") =>
    /\ submitFlowId(otpResponse) = beginFlowId(rawSeen)
    /\ submitAuthenticatorId(otpResponse) = beginAuthenticatorId(rawSeen)
    /\ otpError = "Unable to locate flowId" => beginFlowId(rawSeen) = 0
    /\ otpError = "Unable to locate authenticatorId" =>
         (beginFlowId(rawSeen) # 0 /\ beginAuthenticatorId(rawSeen) = 0)
    /\ otpPend = "authn" =>
         /\ authnReq.flowId = beginFlowId(rawSeen) /\ authnReq.flowId # 0
         /\ authnReq.authenticatorId = beginAuthenticatorId(rawSeen)
         /\ authnReq.authenticatorId # 0

\* C26, together with its converse: a submitOtp called with a code sends the
\* submission exactly when startEmailOtp found both identifiers, and reports the
\* missing one otherwise.
C26_NormalizationIdempotent ==
  /\ []ContextAgrees
  /\ [][(submitOtp /\ otpValue # "") =>
          /\ otpPend' = "authn" <=>
               (beginFlowId(rawSeen) # 0 /\ beginAuthenticatorId(rawSeen) # 0)
          /\ otpError' = "Unable to locate flowId" <=> beginFlowId(rawSeen) = 0
          /\ otpError' = "Unable to locate authenticatorId" <=>
               (beginFlowId(rawSeen) # 0 /\ beginAuthenticatorId(rawSeen) = 0)]_vars

\* C26 witness: the raw response carried two authenticator variants that the two
\* probing orders rank differently and no flow identifier; submitOtp was called with
\* a code and reported the missing flowId.
C26_Witness ==
  /\ otpVisible /\ otpValue # "" /\ otpError = "Unable to locate flowId"
  /\ rawSeen["authenticatorId"] > 0
  /\ rawSeen["nextStep.authenticators[0].authenticatorId"] > 0
  /\ submitAuthenticatorId(otpResponse) = rawSeen["nextStep.authenticators[0].authenticatorId"]

\* the step in which submitOtp issues its buy-insurance request
BuyIssued == buyReq = NoBuy /\ buyReq' # NoBuy

\* C27: a buy-insurance request carries the id of a quote that was obtained for the
\* vehicle it names, and that vehicle has no policy yet.
C27_BuyMatchesQuote ==
  [][BuyIssued =>
       /\ snap.quote.id = buyReq'.quoteId
       /\ snap.quote.vehicleId = buyReq'.vehicleId
       /\ buyReq'.vehicleId \notin insuredSrv]_vars

\* no request that ends in a TokenSet is in flight
NoTokenOperation == pend = NoReq /\ otpPend # "token" /\ refreshPend = NoRefresh

\* C28: while no token operation is in flight and the store accepts writes, the
\* TokenSet in memory is the one persisted under the tokens key, both absent or both
\* the same value.
C28_MemoryEqualsStore ==
  (NoTokenOperation /\ storageMode = "ok") =>
    tokens = loadSession(store, storageMode, <<"tokens">>, NoTokens)

\* C28 witness: after two logins with a logout in between and no operation in
\* flight, the TokenSet of the second login is in memory and in the store.
C28_Witness ==
  /\ NoTokenOperation /\ issued = MaxTok /\ nextState = MaxLogins
  /\ tokens # NoTokens /\ tokens.client_id = CLIENT_ID
  /\ store[<<"tokens">>] = <<tokens>>

\* the step in which a request that was in flight when clearSession ran is answered
LateExchangeAnswer == pend # NoReq /\ pend = atLogout.pend /\ pend' = NoReq
LateStepUpAnswer == otpPend = "token" /\ atLogout.stepUp /\ otpPend' # "token"
LateRefreshAnswer ==
  refreshPend # NoRefresh /\ refreshPend = atLogout.refresh /\ refreshPend' = NoRefresh
LateVehiclesAnswer == vehFetch /\ atLogout.vehicles /\ ~vehFetch'

\* C29: the answer to a code exchange, step-up exchange, refresh or vehicles fetch
\* that was in flight when clearSession ran leaves the session logged out: no TokenSet
\* in memory or in the store and no vehicle list.
C29_LogoutWins ==
  [][(LateExchangeAnswer \/ LateStepUpAnswer \/ LateRefreshAnswer \/ LateVehiclesAnswer)
       => (~TokenSetExists(tokens', store') /\ vehicles' = NoVehicles)]_vars

\* an answer to the code exchange was handled on this page and a step-up submission
\* ended in its catch block
BothReleased ==
  /\ lastResp # NoResp
  /\ otpError = "Post-OTP token exchange error"
  /\ otpPend = "none"

\* redirectLanding returned from exchangeCodeForTokens at line 438
MissingVerifierReturn == redirectLanding /\ store' # store /\ pend' = NoReq

\* submitOtp returned before line 260
SubmitEarlyReturn == submitOtp /\ otpPend' = "none"

\* C30: with every request settling, an exchange in flight is followed by a state where
\* exchangingRef is false, the return for a missing verifier leaves it false, a true
\* otpRequesting is followed by a state where it is false, and an early return of
\* submitOtp leaves it false.
C30_BusyFlagsReleased ==
  /\ (pend # NoReq) ~> ~exchangingRef
  /\ otpRequesting ~> ~otpRequesting
  /\ [][MissingVerifierReturn => ~exchangingRef']_vars
  /\ [][SubmitEarlyReturn => ~otpRequesting']_vars

C30_Witness == BothReleased /\ ~exchangingRef /\ ~otpRequesting

====
